---------------------------- MODULE Spec2Model ----------------------------
(***************************************************************************)
(* A model of the trading monitor: the threshold/signal engine             *)
(* (strategy.py), the option selector (ib_manager.py, app.py) and the      *)
(* exit monitor with the manual close handler (app.py).                    *)
(*                                                                         *)
(* Numbers.  Prices, closes, strikes and n_points are whole points.  A     *)
(* value the code rounds with round(x, 4) is held in units of 1/Scale of   *)
(* a point ("scaled").  Means are compared as exact fractions (sum and     *)
(* count), standard deviations through their squares, so no comparison of  *)
(* the model depends on a floating-point approximation.                    *)
(***************************************************************************)
EXTENDS Integers, Sequences, FiniteSets, TLC

VARIABLES
    watch_list,     \* engine.watch_list: watch id -> WatchItem, or NoWatch
    thresholds,     \* engine._thresholds: watch id -> ThresholdCache, or NoCache
    signals,        \* engine.signals: the Signals, oldest first
    latest_data,    \* engine.latest_data: watch id -> display snapshot, or NoData
    gen_signals,    \* history: Signals appended for the watch since its last
                    \* successful calculate_thresholds
    candles,        \* engine._candles: watch id -> the closes of the stored
                    \* chart bars, <<>> when none are stored
    daily_bars,     \* the gateway's daily history of each watch's instrument:
                    \* the closes get_daily_bars answers with
    active_trades,  \* app._active_trades: trade id -> trade, or NoTrade
    close_orders,   \* the gateway's order log: trade id -> for each leg, the
                    \* number of closing market orders placed for it
    mon,            \* monitor_loop: where its exit monitoring stands
    closer,         \* close_trade: where the request for each trade stands
    placer,         \* place_order: the next leg of each trade its limit
                    \* exit placement looks at, 0 when it is not running
    fired,          \* history: trade id -> the exit rules that fired for it
                    \* in the monitor's current tick
    options_cache,  \* app._options_cache: watch id -> cached option set, or
                    \* NoOptions
    fetch,          \* the calls of cache_options_for_watch awaiting the
                    \* gateway, one per caller
    hourly,         \* monitor_loop: where its hourly recalculation stands
    init_task,      \* _init_new_watch: where the task stands
    last_hourly,    \* history: watch id -> what the last hourly recalculation
                    \* of the watch decided
    chain_strikes,  \* the strikes the gateway lists for the instrument
    request,        \* the arguments of a strike selection
    otm,            \* the strikes the selection returned, None before it
    notify,         \* monitor_loop: where its price loop stands
    last_broadcast_prices,
                    \* monitor_loop's last_broadcast_prices, 0 for a watch
                    \* it holds no price of
    trail,          \* history: what the price loop did since its latest
                    \* tick began, oldest first
    chains,         \* the option chains reqSecDefOptParams answers with
    clock,          \* the wall clock datetime.now() reads
    sorted_exps,    \* the latest expiration selection: its arguments, the
                    \* clock it read and the expirations it selected
    entry,          \* place_order: where the request stands, with its items
                    \* and the outcome of each so far
    tick,           \* monitor_loop: where the pass of its while loop stands
    processed,      \* history: what the current pass has processed so far
    raising,        \* the watches and trades whose processing raises
    config_file,    \* config.json: the kind of each entry of its watch_list
    loaded,         \* the positions of the entries load_config added to
                    \* engine.watch_list, None before it ran
    ib_queue,       \* _ib_executor: the work queue, the submitted
                    \* operations not yet taken
    ib_executing,   \* _ib_executor: worker thread -> the operation it
                    \* executes, or NoOp
    ib_submitted,   \* history: the operations in the order of their
                    \* submission
    ib_started,     \* history: the operations in the order their
                    \* execution began
    running,        \* engine._running
    monitor_task,   \* app.monitor_task: the task it names, 0 for None
    loops,          \* the monitor_loop tasks created so far: where each
                    \* stands
    stopper,        \* stop_monitoring: where the request stands
    starter,        \* _init_new_watch as a task: where it stands
    subscriptions,  \* ib_manager._subscriptions: the watches with a price
                    \* stream
    gateway_up,     \* whether the gateway accepts the connection
    stopped,        \* history: a stop request has returned and no start
                    \* came since
    sizing,         \* place_order: the leg being sized and its quantity
    got_signals,    \* the answer of the last get_signals call and its limit
    deleter,        \* delete_watch: where the request stands
    deleted,        \* history: the watch ids delete_watch has completed for
    held            \* the WatchItem each task in flight was started with

engineVars == <<watch_list, thresholds, signals, latest_data, gen_signals,
               candles>>

tradeVars == <<active_trades, close_orders, mon, closer, placer, fired>>

optionVars == <<options_cache, fetch, hourly, init_task, last_hourly,
                chain_strikes, request, otm>>

notifyVars == <<notify, last_broadcast_prices, trail>>

expiryVars == <<chains, clock, sorted_exps>>

entryVars == <<entry>>

tickVars == <<tick, processed, raising>>

configVars == <<config_file, loaded>>

executorVars == <<ib_queue, ib_executing, ib_submitted, ib_started>>

loopVars == <<running, monitor_task, loops, stopper, starter, subscriptions,
             gateway_up, stopped>>

sizeVars == <<sizing>>

historyVars == <<got_signals>>

deleteVars == <<deleter, deleted, held>>

\* what the engine's methods leave alone
otherVars == <<daily_bars, tradeVars, optionVars, notifyVars, expiryVars,
               entryVars,
               tickVars,
               configVars,
               executorVars,
               loopVars,
               sizeVars,
               historyVars,
               deleteVars>>

vars == <<watch_list, thresholds, signals, latest_data, gen_signals, candles,
          daily_bars,
          active_trades, close_orders, mon, closer, placer, fired,
          options_cache, fetch, hourly, init_task, last_hourly,
          chain_strikes, request, otm, notify, last_broadcast_prices, trail,
          chains, clock, sorted_exps,
          entry,
          tick, processed, raising,
          config_file, loaded,
          ib_queue, ib_executing, ib_submitted, ib_started,
          running, monitor_task, loops, stopper, starter, subscriptions, gateway_up, stopped,
          sizing,
          got_signals,
          deleter, deleted, held>>

(***************************************************************************)
(* Bounds of the model.                                                    *)
(***************************************************************************)
MaxPrice == 3
MaxSignals == 1
MaxClock == 2
MaxLegs == 2
MaxStrike == 4
MaxListed == 7
MaxDay == 3
MaxTime == 1
MaxItems == 2
MaxEntries == 3
MaxOps == 4
MaxLoops == 2
MaxAmount == 40
MaxAsk == 30
MaxHistory == 3

(***************************************************************************)
(* Program constants.                                                      *)
(***************************************************************************)
Scale == 10000
Inf == 2147483647
NumStrikes == 5
max_workers == 1

WatchIds == {"w1"}
Prices == 1..MaxPrice
Directions == {"LONG", "SHORT"}
Strategies == {"MA", "BB"}
NPoints == {1, 2}

\* the daily bar series the gateway may answer with: their closes
BarLens == {2, 3}
BarSeries == UNION {[1..n -> Prices] : n \in BarLens}

(***************************************************************************)
(* Arithmetic helpers.                                                     *)
(***************************************************************************)
Abs(x) == IF x < 0 THEN -x ELSE x

Min(a, b) == IF a < b THEN a ELSE b

RECURSIVE SumSeq(_)
SumSeq(s) == IF s = <<>> THEN 0 ELSE Head(s) + SumSeq(Tail(s))

RECURSIVE SumSq(_)
SumSq(s) == IF s = <<>> THEN 0 ELSE Head(s) * Head(s) + SumSq(Tail(s))

\* the last n elements of s (all of s when it is shorter): s[-n:], df.tail(n)
LastN(s, n) == IF n >= Len(s) THEN s ELSE SubSeq(s, Len(s) - n + 1, Len(s))

\* round(a / b) for b > 0: to the nearest integer, a tie to the even one
RoundDiv(a, b) ==
    LET q == (2 * a) \div (2 * b)
        r == (2 * a) % (2 * b)
    IN  IF r < b THEN q
        ELSE IF r > b THEN q + 1
        ELSE IF q % 2 = 0 THEN q ELSE q + 1

\* round(sum / n, 4) of a mean of whole points, scaled
Round4(sum, n) == RoundDiv(Scale * sum, n)

RECURSIVE ISqrtIn(_, _, _)
ISqrtIn(m, lo, hi) ==
    IF hi - lo <= 1 THEN lo
    ELSE LET mid == (lo + hi) \div 2
         IN  IF mid * mid <= m THEN ISqrtIn(m, mid, hi) ELSE ISqrtIn(m, lo, mid)

\* floor(sqrt(m)) for 0 <= m < 2^30
ISqrt(m) == ISqrtIn(m, 0, 32768)

\* the largest d in lo..hi-1 with 200*a*d + d*d <= bound (lo qualifies)
RECURSIVE DigitIn(_, _, _, _)
DigitIn(a, bound, lo, hi) ==
    IF hi - lo <= 1 THEN lo
    ELSE LET mid == (lo + hi) \div 2
         IN  IF 200 * a * mid + mid * mid <= bound
             THEN DigitIn(a, bound, mid, hi) ELSE DigitIn(a, bound, lo, mid)

\* floor(Scale * sqrt(m)), two decimal digits at a time
FloorSqrtScaled(m) ==
    LET a == ISqrt(m * 10000)
        rem == m * 10000 - a * a
    IN  100 * a + DigitIn(a, 10000 * rem, 0, 100)

IsSquare(m) == ISqrt(m) * ISqrt(m) = m

(***************************************************************************)
(* A band (A + sgn * sqrt(B)) / D with integers A, B >= 0, D > 0 and sgn   *)
(* +1 or -1: a Bollinger band of whole-point closes.                       *)
(***************************************************************************)
\* sqrt(B) <= c
SqrtLe(B, c) == c >= 0 /\ B <= c * c

\* sqrt(B) >= c
SqrtGe(B, c) == c <= 0 \/ c * c <= B

BandIsZero(b) ==
    /\ b.A * b.A = b.B
    /\ IF b.sgn = 1 THEN b.A <= 0 ELSE b.A >= 0

\* x <= band + n   (x, n whole points)
LeBandPlus(x, b, n) ==
    LET c == x * b.D - b.A - n * b.D
    IN  IF b.sgn = 1 THEN SqrtGe(b.B, c) ELSE c <= 0 /\ b.B <= c * c

\* band - n <= x   (x, n whole points)
BandMinusLe(b, n, x) ==
    LET c == x * b.D - b.A + n * b.D
    IN  IF b.sgn = 1 THEN SqrtLe(b.B, c) ELSE c >= 0 \/ c * c <= b.B

\* round(band, 4), scaled
Round4Band(b) ==
    LET q == FloorSqrtScaled(4 * b.B)
        k == 2 * Scale * b.A + b.D
    IN  IF b.sgn = 1 THEN (k + q) \div (2 * b.D)
        ELSE (k - (IF IsSquare(b.B) THEN q ELSE q + 1)) \div (2 * b.D)


(***************************************************************************)
(* Optional values: None is the empty sequence, a value v is <<v>>.        *)
(***************************************************************************)
NoneV == <<>>

Some(v) == <<v>>

\* Python truthiness of an optional number: neither None nor 0
Truthy(o) == o # <<>> /\ o[1] # 0

\* Python truthiness of an optional list: neither None nor empty
TruthyList(o) == o # <<>> /\ o[1] # <<>>

\* Python "o or d"
OrElse(o, d) == IF Truthy(o) THEN o[1] ELSE d

(***************************************************************************)
(* StrategyEngine: thresholds (strategy.py).                               *)
(***************************************************************************)
NoWatch == [present |-> FALSE]

NoCache == [present |-> FALSE]

NoData == [present |-> FALSE]

NoSignal == [present |-> FALSE]

\* n * sum(x^2) - sum(x)^2 of a window: n^2 times its population variance
VarNum(win) == Len(win) * SumSq(win) - SumSeq(win) * SumSeq(win)

\* ma +/- k * std with the sample standard deviation (pandas rolling().std())
SampleBand(win, k, sgn) ==
    LET n == Len(win)
    IN  [A |-> SumSeq(win) * (n - 1), sgn |-> sgn,
         B |-> k * k * VarNum(win) * n * (n - 1), D |-> n * (n - 1)]

\* ma +/- k * std with the population standard deviation (check_price)
PopBand(win, k, sgn) ==
    [A |-> SumSeq(win), sgn |-> sgn, B |-> k * k * VarNum(win), D |-> Len(win)]

Direction(cur, prev) ==
    IF cur > prev THEN "RISING" ELSE IF cur < prev THEN "FALLING" ELSE "FLAT"

ConfirmOk(direction, confirm_dir) ==
    IF direction = "LONG" THEN confirm_dir = "RISING" ELSE confirm_dir = "FALLING"

\* the failure value of calculate_thresholds: not enabled, no bars, too few bars
CalcFails(df, watch) ==
    \/ ~watch.enabled
    \/ Len(df) < watch.ma_period + 1

\* the ThresholdCache calculate_thresholds builds from the closes df
NewCache(df, watch) ==
    LET p == watch.ma_period
        win == LastN(df, p)
        prevWin == SubSeq(df, Len(df) - p, Len(df) - 1)
        cur == SumSeq(win)
        prev == SumSeq(prevWin)
        ma_rising == cur > prev
        ma_falling == cur < prev
        isBB == watch.strategy_type # "MA"
        upper == SampleBand(win, watch.bb_std_dev, 1)
        lower == SampleBand(win, watch.bb_std_dev, -1)
        longBB == isBB /\ watch.direction = "LONG" /\ ~BandIsZero(lower)
        shortBB == isBB /\ ~longBB /\ watch.direction = "SHORT" /\ ~BandIsZero(upper)
        cp == watch.confirm_ma_period
        hasConfirm == watch.confirm_ma_enabled /\ cp > 0 /\ Len(df) >= cp + 1
        ccur == SumSeq(LastN(df, cp))
        cprev == SumSeq(SubSeq(df, Len(df) - cp, Len(df) - 1))
        cdir == Direction(ccur, cprev)
    IN  [present |-> TRUE,
         ma_value |-> Round4(cur, p),
         prev_ma |-> Round4(prev, p),
         ma_rising |-> ma_rising,
         signal_type |->
             IF ~isBB THEN (IF ma_rising THEN "BUY"
                            ELSE IF ma_falling THEN "SELL" ELSE "None")
             ELSE IF longBB THEN "BUY" ELSE IF shortBB THEN "SELL" ELSE "None",
         trigger_low |->
             IF ~isBB THEN (IF ma_rising THEN Round4(cur, p)
                            ELSE IF ma_falling THEN Round4(cur, p) - watch.n_points * Scale
                            ELSE 0)
             ELSE IF shortBB THEN Round4Band(upper) - watch.n_points * Scale ELSE 0,
         trigger_high |->
             IF ~isBB THEN (IF ma_rising THEN Round4(cur, p) + watch.n_points * Scale
                            ELSE IF ma_falling THEN Round4(cur, p)
                            ELSE 0)
             ELSE IF longBB THEN Round4Band(lower) + watch.n_points * Scale
             ELSE IF shortBB THEN Inf ELSE 0,
         last_price |-> 0,
         signal_fired |-> FALSE,
         qualified |-> TRUE,
         ma_direction |-> Direction(cur, prev),
         n_points |-> watch.n_points,
         ma_period |-> p,
         hist_closes |-> LastN(df, p - 1),
         confirm_hist_closes |-> IF hasConfirm THEN Some(LastN(df, cp - 1)) ELSE NoneV,
         confirm_ma_value |-> IF hasConfirm THEN Some(Round4(ccur, cp)) ELSE NoneV,
         confirm_ma_direction |-> IF hasConfirm THEN cdir ELSE "None",
         confirm_ma_ok |-> IF hasConfirm THEN ConfirmOk(watch.direction, cdir) ELSE TRUE,
         strategy_type |-> watch.strategy_type,
         bb_std_dev |-> watch.bb_std_dev,
         bb_upper |-> IF isBB /\ ~BandIsZero(upper) THEN Some(Round4Band(upper)) ELSE NoneV,
         bb_lower |-> IF isBB /\ ~BandIsZero(lower) THEN Some(Round4Band(lower)) ELSE NoneV,
         bb_middle |-> IF cur # 0 THEN Some(Round4(cur, p)) ELSE NoneV]

\* the display snapshot calculate_thresholds stores (no price yet)
CalcData(cache) ==
    [present |-> TRUE, current_price |-> 0, ma_value |-> cache.ma_value,
     prev_ma |-> cache.prev_ma, ma_direction |-> cache.ma_direction,
     distance_from_ma |-> 0, live |-> FALSE]

(***************************************************************************)
(* StrategyEngine.check_price (strategy.py).                               *)
(***************************************************************************)
\* check_price returns at once: no baseline, no implied signal type, no
\* watch, or the watch is paused
CheckSkips(cache, watch) ==
    \/ ~cache.present
    \/ cache.signal_type = "None"
    \/ ~watch.present
    \/ ~watch.enabled

\* the qualification gate evaluated on every tick
DisqualifiesEveryTick(cache, watch, price) ==
    \/ watch.direction = "LONG" /\ price * Scale < cache.ma_value
    \/ watch.direction = "SHORT" /\ price * Scale > cache.ma_value

\* the qualification gate: evaluated while no live price is recorded
Disqualifies(cache, watch, price) ==
    /\ cache.last_price = 0
    /\ \/ watch.direction = "LONG" /\ price * Scale < cache.ma_value
       \/ watch.direction = "SHORT" /\ price * Scale > cache.ma_value

QualifiedAfter(cache, watch, price) ==
    IF Disqualifies(cache, watch, price) THEN FALSE ELSE cache.qualified

\* the window of the live indicator: the saved closes and the tick
LiveWin(cache, price) == Append(cache.hist_closes, price)

\* the live direction of the indicator against the recalculated baseline
LiveDirection(cache, price) ==
    IF cache.hist_closes # <<>>
    THEN LET w == LiveWin(cache, price)
         IN  IF SumSeq(w) * Scale > cache.ma_value * Len(w) THEN "RISING"
             ELSE IF SumSeq(w) * Scale < cache.ma_value * Len(w) THEN "FALLING"
             ELSE "FLAT"
    ELSE Direction(cache.ma_value, cache.prev_ma)

LiveLower(cache, price) == PopBand(LiveWin(cache, price), cache.bb_std_dev, -1)

LiveUpper(cache, price) == PopBand(LiveWin(cache, price), cache.bb_std_dev, 1)

\* the live signal type with a flat indicator counted as rising
LiveSignalTypeFlatBuys(cache, watch, price) ==
    IF cache.strategy_type = "MA"
    THEN IF LiveDirection(cache, price) = "FALLING" THEN "SELL" ELSE "BUY"
    ELSE IF watch.direction = "LONG" /\ ~BandIsZero(LiveLower(cache, price)) THEN "BUY"
    ELSE IF watch.direction = "SHORT" /\ ~BandIsZero(LiveUpper(cache, price)) THEN "SELL"
    ELSE "None"

\* the signal type of the live trigger zone
LiveSignalType(cache, watch, price) ==
    IF cache.strategy_type = "MA"
    THEN LET d == LiveDirection(cache, price)
         IN  IF d = "RISING" THEN "BUY" ELSE IF d = "FALLING" THEN "SELL" ELSE "None"
    ELSE IF watch.direction = "LONG" /\ ~BandIsZero(LiveLower(cache, price)) THEN "BUY"
    ELSE IF watch.direction = "SHORT" /\ ~BandIsZero(LiveUpper(cache, price)) THEN "SELL"
    ELSE "None"

\* trigger_low <= price <= trigger_high for the live trigger zone
InZone(cache, watch, price) ==
    LET w == LiveWin(cache, price)
        s == SumSeq(w)
        n == Len(w)
        st == LiveSignalType(cache, watch, price)
    IN  IF cache.strategy_type = "MA"
        THEN IF st = "BUY" THEN s <= price * n /\ price * n <= s + watch.n_points * n
             ELSE IF st = "SELL" THEN s - watch.n_points * n <= price * n /\ price * n <= s
             ELSE 0 <= price /\ price <= 0
        ELSE IF st = "BUY" THEN 0 <= price /\ LeBandPlus(price, LiveLower(cache, price), watch.n_points)
             ELSE IF st = "SELL" THEN BandMinusLe(LiveUpper(cache, price), watch.n_points, price)
             ELSE 0 <= price /\ price <= 0

LiveConfirmDirection(cache, watch, price) ==
    IF watch.confirm_ma_enabled /\ TruthyList(cache.confirm_hist_closes)
    THEN LET w == Append(cache.confirm_hist_closes[1], price)
             live == SumSeq(w) * Scale
             prev == IF Truthy(cache.confirm_ma_value)
                     THEN cache.confirm_ma_value[1] * Len(w) ELSE live
         IN  IF live > prev THEN "RISING" ELSE IF live < prev THEN "FALLING" ELSE "FLAT"
    ELSE cache.confirm_ma_direction

\* confirmation taken as satisfied whatever the direction
LiveConfirmOkAlways(cache, watch, price) == TRUE

LiveConfirmOk(cache, watch, price) ==
    IF watch.confirm_ma_enabled /\ TruthyList(cache.confirm_hist_closes)
    THEN ConfirmOk(watch.direction, LiveConfirmDirection(cache, watch, price))
    ELSE TRUE

DirectionFilter(watch, st) ==
    /\ ~(watch.direction = "LONG" /\ st # "BUY")
    /\ ~(watch.direction = "SHORT" /\ st # "SELL")

\* firing without the direction filter
FiresAnyDirection(cache, watch, price) ==
    /\ LiveSignalType(cache, watch, price) # "None"
    /\ LiveConfirmOk(cache, watch, price)
    /\ InZone(cache, watch, price)
    /\ ~cache.signal_fired

\* the condition under which a tick, processed for a qualified watch, fires
Fires(cache, watch, price) ==
    /\ DirectionFilter(watch, LiveSignalType(cache, watch, price))
    /\ LiveConfirmOk(cache, watch, price)
    /\ InZone(cache, watch, price)
    /\ ~cache.signal_fired

\* the distance taken from the baseline value instead of the live one
BaselineDistance(cache, price) == price * Scale - cache.ma_value

\* round(price - realtime_ma, 4), scaled
LiveDistance(cache, price) ==
    LET w == LiveWin(cache, price)
    IN  RoundDiv(Scale * (price * Len(w) - SumSeq(w)), Len(w))

LiveMa(cache, price) ==
    LET w == LiveWin(cache, price)
    IN  Round4(SumSeq(w), Len(w))

\* the display snapshot check_price stores for a qualified watch
LiveData(cache, watch, price) ==
    [present |-> TRUE, current_price |-> price,
     ma_value |-> LiveMa(cache, price),
     prev_ma |-> cache.ma_value,
     ma_direction |-> LiveDirection(cache, price),
     distance_from_ma |-> LiveDistance(cache, price),
     live |-> TRUE,
     confirm_ma_ok |-> LiveConfirmOk(cache, watch, price),
     confirm_ma_direction |-> LiveConfirmDirection(cache, watch, price),
     strategy_type |-> cache.strategy_type,
     bb_upper |-> IF cache.strategy_type = "BB"
                  THEN (IF BandIsZero(LiveUpper(cache, price)) THEN NoneV
                        ELSE Some(Round4Band(LiveUpper(cache, price))))
                  ELSE cache.bb_upper,
     bb_lower |-> IF cache.strategy_type = "BB"
                  THEN (IF BandIsZero(LiveLower(cache, price)) THEN NoneV
                        ELSE Some(Round4Band(LiveLower(cache, price))))
                  ELSE cache.bb_lower,
     bb_middle |-> Some(LiveMa(cache, price)),
     qualified |-> TRUE]

NewSignal(w, cache, watch, price) ==
    [present |-> TRUE, watch_id |-> w,
     signal_type |-> LiveSignalType(cache, watch, price),
     price |-> price,
     ma_value |-> LiveMa(cache, price),
     ma_period |-> cache.ma_period,
     n_points |-> cache.n_points,
     distance |-> Abs(LiveDistance(cache, price))]

\* the Signal check_price returns for watch w, or NoSignal
CheckSignal(w, cache, watch, price) ==
    IF CheckSkips(cache, watch) THEN NoSignal
    ELSE IF ~QualifiedAfter(cache, watch, price) THEN NoSignal
    ELSE IF Fires(cache, watch, price) THEN NewSignal(w, cache, watch, price)
    ELSE NoSignal

\* check_price without the latch: signal_fired is never set
CheckCacheNoLatch(w, cache, watch, price) ==
    IF CheckSkips(cache, watch) THEN cache
    ELSE IF ~QualifiedAfter(cache, watch, price)
         THEN [cache EXCEPT !.qualified = FALSE, !.last_price = price]
    ELSE [cache EXCEPT !.last_price = price]

\* the ThresholdCache of the watch after check_price
CheckCache(w, cache, watch, price) ==
    IF CheckSkips(cache, watch) THEN cache
    ELSE IF ~QualifiedAfter(cache, watch, price)
         THEN [cache EXCEPT !.qualified = FALSE, !.last_price = price]
    ELSE [cache EXCEPT !.last_price = price,
                       !.signal_fired = @ \/ Fires(cache, watch, price)]

\* the display snapshot of the watch after check_price
CheckData(cache, watch, price, old) ==
    IF CheckSkips(cache, watch) THEN old
    ELSE IF ~QualifiedAfter(cache, watch, price) THEN old
    ELSE LiveData(cache, watch, price)

(***************************************************************************)
(* The engine's operations as actions.                                     *)
(***************************************************************************)
Watches ==
    [present : {TRUE}, enabled : BOOLEAN, direction : Directions,
     ma_period : {2}, n_points : {1}, strategy_type : Strategies,
     bb_std_dev : {2}, confirm_ma_enabled : BOOLEAN, confirm_ma_period : {2}]

\* the fields update_watch can set, with the values the model draws for them
Updates ==
    {<<"enabled", v>> : v \in BOOLEAN}
    \cup {<<"direction", v>> : v \in Directions}
    \cup {<<"confirm_ma_enabled", v>> : v \in BOOLEAN}

SetField(watch, k, v) ==
    CASE k = "enabled" -> [watch EXCEPT !.enabled = v]
      [] k = "direction" -> [watch EXCEPT !.direction = v]
      [] k = "ma_period" -> [watch EXCEPT !.ma_period = v]
      [] k = "n_points" -> [watch EXCEPT !.n_points = v]
      [] k = "strategy_type" -> [watch EXCEPT !.strategy_type = v]
      [] k = "confirm_ma_enabled" -> [watch EXCEPT !.confirm_ma_enabled = v]

\* the update invalidates the threshold cache
Invalidates(k) == k \in {"ma_period", "n_points", "direction", "enabled"}

\* StrategyEngine.update_watch(w, {k: v})
EngineUpdateWatch(w, k, v) ==
    /\ watch_list[w].present
    /\ watch_list' = [watch_list EXCEPT ![w] = SetField(@, k, v)]
    /\ thresholds' = IF Invalidates(k) THEN [thresholds EXCEPT ![w] = NoCache]
                     ELSE thresholds
    /\ UNCHANGED <<signals, latest_data, gen_signals, candles>>

\* calculate_thresholds updating the baseline in place: the latch, the
\* qualification and the last price of the prior baseline are kept
CalculateThresholdsInPlace(w) ==
    LET df == daily_bars[w]
        old == thresholds[w]
        new == NewCache(df, watch_list[w])
    IN
    /\ watch_list[w].present
    /\ IF CalcFails(df, watch_list[w])
       THEN UNCHANGED <<thresholds, latest_data, gen_signals, candles>>
       ELSE /\ thresholds' = [thresholds EXCEPT ![w] =
                   IF old.present
                   THEN [new EXCEPT !.signal_fired = old.signal_fired,
                                    !.qualified = old.qualified,
                                    !.last_price = old.last_price]
                   ELSE new]
            /\ latest_data' = [latest_data EXCEPT ![w] = CalcData(new)]
            /\ gen_signals' = [gen_signals EXCEPT ![w] = 0]
            /\ candles' = [candles EXCEPT ![w] = LastN(df, 120)]
    /\ UNCHANGED <<watch_list, signals>>

\* calculate_thresholds taking the previous value of the indicator from the
\* baseline it replaces
CalculateThresholdsFromPrior(w) ==
    LET df == daily_bars[w]
        old == thresholds[w]
        new == NewCache(df, watch_list[w])
    IN
    /\ watch_list[w].present
    /\ IF CalcFails(df, watch_list[w])
       THEN UNCHANGED <<thresholds, latest_data, gen_signals, candles>>
       ELSE /\ thresholds' = [thresholds EXCEPT ![w] =
                   IF old.present THEN [new EXCEPT !.prev_ma = old.ma_value]
                   ELSE new]
            /\ latest_data' = [latest_data EXCEPT ![w] = CalcData(thresholds'[w])]
            /\ gen_signals' = [gen_signals EXCEPT ![w] = 0]
            /\ candles' = [candles EXCEPT ![w] = LastN(df, 120)]
    /\ UNCHANGED <<watch_list, signals>>

\* calculate_thresholds dropping the baseline it cannot recalculate
CalculateThresholdsDropping(w) ==
    LET df == daily_bars[w]
    IN
    /\ watch_list[w].present
    /\ IF CalcFails(df, watch_list[w])
       THEN /\ thresholds' = [thresholds EXCEPT ![w] = NoCache]
            /\ UNCHANGED <<latest_data, gen_signals, candles>>
       ELSE /\ thresholds' = [thresholds EXCEPT ![w] = NewCache(df, watch_list[w])]
            /\ latest_data' = [latest_data EXCEPT ![w] = CalcData(thresholds'[w])]
            /\ gen_signals' = [gen_signals EXCEPT ![w] = 0]
            /\ candles' = [candles EXCEPT ![w] = LastN(df, 120)]
    /\ UNCHANGED <<watch_list, signals>>

\* StrategyEngine.calculate_thresholds(w, df, watch_list[w]) on the bars
\* the gateway answers with
CalculateThresholds(w) ==
    LET df == daily_bars[w]
    IN
    /\ watch_list[w].present
    /\ IF CalcFails(df, watch_list[w])
       THEN UNCHANGED <<thresholds, latest_data, gen_signals, candles>>
       ELSE /\ thresholds' = [thresholds EXCEPT ![w] = NewCache(df, watch_list[w])]
            /\ latest_data' = [latest_data EXCEPT ![w] = CalcData(thresholds'[w])]
            /\ gen_signals' = [gen_signals EXCEPT ![w] = 0]
            /\ candles' = [candles EXCEPT ![w] = LastN(df, 120)]
    /\ UNCHANGED <<watch_list, signals>>

\* StrategyEngine.check_price(w, price)
CheckPrice(w, price) ==
    LET cache == thresholds[w]
        watch == watch_list[w]
        sig == CheckSignal(w, cache, watch, price)
    IN  /\ sig.present => Len(signals) < MaxSignals
        /\ thresholds' = [thresholds EXCEPT ![w] = CheckCache(w, cache, watch, price)]
        /\ latest_data' = [latest_data EXCEPT
                              ![w] = CheckData(cache, watch, price, @)]
        /\ signals' = IF sig.present THEN Append(signals, sig) ELSE signals
        /\ gen_signals' = IF sig.present THEN [gen_signals EXCEPT ![w] = @ + 1]
                          ELSE gen_signals
        /\ UNCHANGED <<watch_list, candles>>

\* StrategyEngine.remove_watch(w)
EngineRemoveWatch(w) ==
    /\ watch_list' = [watch_list EXCEPT ![w] = NoWatch]
    /\ thresholds' = [thresholds EXCEPT ![w] = NoCache]
    /\ latest_data' = [latest_data EXCEPT ![w] = NoData]
    /\ candles' = [candles EXCEPT ![w] = <<>>]
    /\ UNCHANGED <<signals, gen_signals>>

\* StrategyEngine.clear_signals()
ClearSignals ==
    /\ signals' = <<>>
    /\ UNCHANGED <<watch_list, thresholds, latest_data, gen_signals, candles>>

(***************************************************************************)
(* Option selection (ib_manager.py) and the option cache (app.py).         *)
(* Strikes are scaled like the reference price they are compared with.     *)
(* The chain has one expiration.                                           *)
(***************************************************************************)
NoOptions == [present |-> FALSE]

NoFetch == [present |-> FALSE]

NoRequest == [present |-> FALSE]

\* the callers of cache_options_for_watch
Callers == {"hourly", "init"}

HourlyIdle == [pc |-> "idle", w |-> "none"]

InitIdle == [pc |-> "idle", w |-> "none", ma_value |-> 0]

\* sorted(strikes)
RECURSIVE SortAsc(_)
SortAsc(S) ==
    IF S = {} THEN <<>>
    ELSE LET m == CHOOSE x \in S : \A y \in S : x <= y
         IN  <<m>> \o SortAsc(S \ {m})

\* list(reversed(s))
Reverse(s) == [i \in 1..Len(s) |-> s[Len(s) + 1 - i]]

\* s[:n]
Take(s, n) == SubSeq(s, 1, Min(n, Len(s)))

\* the strikes with the comparison of the selection turned into >= and <=
OtmStrikesInclusive(all_strikes, ma_price, right, num_strikes) ==
    LET sorted == SortAsc(all_strikes)
        Above(x) == x >= ma_price
        Below(x) == x <= ma_price
    IN  IF right = "C" THEN Take(SelectSeq(sorted, Above), num_strikes)
        ELSE Take(Reverse(SelectSeq(sorted, Below)), num_strikes)

\* the out-of-the-money strikes _sync_get_option_contracts selects
OtmStrikes(all_strikes, ma_price, right, num_strikes) ==
    LET sorted == SortAsc(all_strikes)
        Above(x) == x > ma_price
        Below(x) == x < ma_price
    IN  IF right = "C" THEN Take(SelectSeq(sorted, Above), num_strikes)
        ELSE Take(Reverse(SelectSeq(sorted, Below)), num_strikes)

\* the contracts get_option_chain answers with
OptionContracts(strikes, ma_price, right, num_strikes) ==
    LET sel == OtmStrikes({x * Scale : x \in strikes}, ma_price, right, num_strikes)
    IN  [i \in 1..Len(sel) |-> [strike |-> sel[i], right |-> right]]

\* the hourly test with the threshold itself counted as a shift
MaShiftedInclusive(new_ma, old_ma, n_points) ==
    2 * Abs(new_ma - old_ma) >= n_points * Scale

\* abs(new_cache.ma_value - old_ma) > watch.n_points * 0.5
MaShifted(new_ma, old_ma, n_points) ==
    2 * Abs(new_ma - old_ma) > n_points * Scale

\* _options_cache.get(w, {}).get("ma_price", 0)
CachedMaPrice(w) ==
    IF options_cache[w].present THEN options_cache[w].ma_price ELSE 0

\* cache_options_for_watch up to its await of the gateway: the right is
\* fixed by the direction the watch has now
StartFetch(c, w, ma_price) ==
    fetch' = [fetch EXCEPT ![c] =
        [present |-> TRUE, watch_id |-> w, ma_price |-> ma_price,
         direction |-> watch_list[w].direction]]

\* cache_options_for_watch from the gateway's answer on: the chain ("ok"),
\* no contract ("empty"), or an exception in the price snapshot ("raise"),
\* which leaves the cache as it is
FetchDone(c, answer) ==
    /\ fetch[c].present
    /\ LET f == fetch[c]
           right == IF f.direction = "LONG" THEN "C" ELSE "P"
           got == IF answer = "ok"
                  THEN OptionContracts(chain_strikes, f.ma_price, right, NumStrikes)
                  ELSE <<>>
       IN  options_cache' =
               IF answer = "raise" THEN options_cache
               ELSE [options_cache EXCEPT ![f.watch_id] =
                        [present |-> TRUE,
                         call_raw |-> IF f.direction = "LONG" THEN got ELSE <<>>,
                         put_raw |-> IF f.direction = "LONG" THEN <<>> ELSE got,
                         ma_price |-> f.ma_price]]
    /\ fetch' = [fetch EXCEPT ![c] = NoFetch]
    /\ hourly' = IF c = "hourly" THEN HourlyIdle ELSE hourly
    /\ init_task' = IF c = "init" THEN InitIdle ELSE init_task
    /\ UNCHANGED <<engineVars, daily_bars, tradeVars, notifyVars, last_hourly,
                   chain_strikes, request, otm,
                   expiryVars,
                   entryVars,
                   tickVars,
                   configVars,
                   executorVars,
                   loopVars,
                   sizeVars,
                   historyVars,
                   deleteVars>>

\* the hourly recalculation of monitor_loop reaches an enabled watch and
\* awaits its daily bars
HourlyStart(w) ==
    /\ hourly.pc = "idle"
    /\ watch_list[w].present /\ watch_list[w].enabled
    /\ hourly' = [pc |-> "bars", w |-> w]
    /\ UNCHANGED <<engineVars, daily_bars, tradeVars, notifyVars, options_cache, fetch,
                   init_task, last_hourly, chain_strikes, request, otm,
                   expiryVars,
                   entryVars,
                   tickVars,
                   configVars,
                   executorVars,
                   loopVars,
                   sizeVars,
                   historyVars,
                   deleteVars>>

\* the bars arrive: a new baseline, and a new option set if it has moved
\* from the cached reference
HourlyBars ==
    /\ hourly.pc = "bars"
    /\ LET w == hourly.w
       IN  /\ CalculateThresholds(w)
           /\ IF CalcFails(daily_bars[w], watch_list[w])
              THEN /\ hourly' = HourlyIdle
                   /\ last_hourly' = [last_hourly EXCEPT ![w] = "failed"]
                   /\ UNCHANGED fetch
              ELSE IF MaShifted(thresholds'[w].ma_value, CachedMaPrice(w),
                                watch_list[w].n_points)
              THEN /\ StartFetch("hourly", w, thresholds'[w].ma_value)
                   /\ hourly' = [pc |-> "chain", w |-> w]
                   /\ last_hourly' = [last_hourly EXCEPT ![w] = "reselect"]
              ELSE /\ hourly' = HourlyIdle
                   /\ last_hourly' = [last_hourly EXCEPT ![w] = "keep"]
                   /\ UNCHANGED fetch
    /\ UNCHANGED <<daily_bars, tradeVars, notifyVars, options_cache, init_task,
                   chain_strikes, request, otm,
                   expiryVars,
                   entryVars,
                   tickVars,
                   configVars,
                   executorVars,
                   loopVars,
                   sizeVars,
                   historyVars,
                   deleteVars>>

\* the handler of PUT /api/watch/{w} while monitoring: the engine's update,
\* and the start of _init_new_watch when the watch is resumed
UpdateWatch(w, k, v) ==
    /\ EngineUpdateWatch(w, k, v)
    /\ IF ~watch_list[w].enabled /\ watch_list'[w].enabled
       THEN /\ init_task.pc = "idle"
            /\ init_task' = [pc |-> "bars", w |-> w, ma_value |-> 0]
       ELSE UNCHANGED init_task
    /\ UNCHANGED <<daily_bars, tradeVars, notifyVars, options_cache, fetch, hourly,
                   last_hourly, chain_strikes, request, otm,
                   expiryVars,
                   entryVars,
                   tickVars,
                   configVars,
                   executorVars,
                   loopVars,
                   sizeVars,
                   historyVars,
                   deleteVars>>

\* _init_new_watch: the bars arrive, the baseline is calculated and the
\* price subscription awaited
InitBars ==
    /\ init_task.pc = "bars"
    /\ LET w == init_task.w
       IN  /\ watch_list[w].present
           /\ CalculateThresholds(w)
           /\ init_task' = IF CalcFails(daily_bars[w], watch_list[w])
                           THEN InitIdle
                           ELSE [pc |-> "subscribe", w |-> w,
                                 ma_value |-> thresholds'[w].ma_value]
    /\ UNCHANGED <<daily_bars, tradeVars, notifyVars, options_cache, fetch, hourly,
                   last_hourly, chain_strikes, request, otm,
                   expiryVars,
                   entryVars,
                   tickVars,
                   configVars,
                   executorVars,
                   loopVars,
                   sizeVars,
                   historyVars,
                   deleteVars>>

\* _init_new_watch: subscribed, it caches the options at the value of the
\* baseline it calculated
InitSubscribed ==
    /\ init_task.pc = "subscribe"
    /\ StartFetch("init", init_task.w, init_task.ma_value)
    /\ init_task' = [init_task EXCEPT !.pc = "chain"]
    /\ UNCHANGED <<engineVars, daily_bars, tradeVars, notifyVars, options_cache, hourly,
                   last_hourly, chain_strikes, request, otm,
                   expiryVars,
                   entryVars,
                   tickVars,
                   configVars,
                   executorVars,
                   loopVars,
                   sizeVars,
                   historyVars,
                   deleteVars>>

\* the gateway's daily history moves on
NewBars(w, b) ==
    /\ daily_bars' = [daily_bars EXCEPT ![w] = b]
    /\ UNCHANGED <<engineVars, tradeVars, optionVars, notifyVars,
                   expiryVars,
                   entryVars,
                   tickVars,
                   configVars,
                   executorVars,
                   loopVars,
                   sizeVars,
                   historyVars,
                   deleteVars>>

(***************************************************************************)
(* Trades: place_order, the exit monitoring of monitor_loop and            *)
(* close_trade (app.py).  Each action is one stretch of a coroutine from   *)
(* one await to the next.                                                  *)
(***************************************************************************)
TradeIds == {"t1"}

\* the order in which monitor_loop walks list(_active_trades.items())
TradeOrder == <<"t1">>

NoTrade == [present |-> FALSE]

\* the exit rules in the order monitor_loop evaluates them
RuleSeq == <<"time", "ma", "bb">>

\* the clock readings strftime("%H:%M") gives, as minutes
Clock == 1..MaxClock

\* exit["time"]: value 0 is the empty string
TimeExits == {[enabled |-> FALSE, value |-> 0],
              [enabled |-> TRUE, value |-> 0],
              [enabled |-> TRUE, value |-> MaxClock]}

\* exit["ma"]
MaExits == {[enabled |-> FALSE, cond |-> "above", dir |-> "+", pts |-> 1],
            [enabled |-> TRUE, cond |-> "above", dir |-> "+", pts |-> 1],
            [enabled |-> TRUE, cond |-> "below", dir |-> "-", pts |-> 1]}

\* exit["bb"]
BbExits == {[enabled |-> FALSE, target |-> "middle"],
            [enabled |-> TRUE, target |-> "middle"],
            [enabled |-> TRUE, target |-> "opposite"]}

ExitConfigs == [time : TimeExits, ma : MaExits, bb : BbExits, limit : BOOLEAN]

\* the entry results of a request: has_qty tells a leg that carries conId
\* and qty_requested from one rejected as invalid
EntryLegs == UNION {[1..n -> BOOLEAN] : n \in 1..MaxLegs}

\* a leg of trade["orders"]; exit_limit is the state of its limit exit order
NewLeg(has_qty) == [has_qty |-> has_qty, exit_limit |-> "none"]

\* the first leg from position i on that the closing loops place an order for
NextLeg(orders, i) ==
    LET S == {j \in i..Len(orders) : orders[j].has_qty}
    IN  IF S = {} THEN 0 ELSE CHOOSE j \in S : \A k \in S : j <= k

MonIdle == [pc |-> "idle", idx |-> 0, rule |-> 0, leg |-> 0]

CloserIdle == [pc |-> "idle", leg |-> 0]

\* the time rule with the exit time itself not yet counted
TimeRuleFiresStrict(trade, now) ==
    /\ trade.exit.time.enabled
    /\ trade.exit.time.value # 0
    /\ now > trade.exit.time.value
    /\ trade.status # "exiting"

\* the time rule of monitor_loop
TimeRuleFires(trade, now) ==
    /\ trade.exit.time.enabled
    /\ trade.exit.time.value # 0
    /\ now >= trade.exit.time.value
    /\ trade.status # "exiting"

\* the MA rule of monitor_loop
MaRuleFires(trade, th) ==
    /\ trade.exit.ma.enabled
    /\ trade.status # "exiting"
    /\ th.present /\ th.last_price > 0
    /\ LET target == IF trade.exit.ma.dir = "+"
                     THEN th.ma_value + trade.exit.ma.pts * Scale
                     ELSE th.ma_value - trade.exit.ma.pts * Scale
       IN  \/ trade.exit.ma.cond = "above" /\ th.last_price * Scale > target
           \/ trade.exit.ma.cond = "below" /\ th.last_price * Scale < target

\* data.get(key) on the display snapshot
DataGet(data, key) ==
    IF ~data.present THEN NoneV
    ELSE IF key = "ma_value" THEN Some(data.ma_value)
    ELSE IF ~data.live THEN NoneV
    ELSE IF key = "bb_middle" THEN data.bb_middle
    ELSE IF key = "bb_upper" THEN data.bb_upper
    ELSE data.bb_lower

\* the BB rule of monitor_loop; a trade has no "direction" key, so that
\* trade.get("direction", "BUY") is "BUY"
BbRuleFires(trade, th, data) ==
    /\ trade.exit.bb.enabled
    /\ trade.status # "exiting"
    /\ th.present /\ th.last_price > 0
    /\ LET bb_middle == IF Truthy(DataGet(data, "bb_middle"))
                        THEN DataGet(data, "bb_middle")
                        ELSE DataGet(data, "ma_value")
           bb_upper == DataGet(data, "bb_upper")
       IN  IF trade.exit.bb.target = "middle" /\ Truthy(bb_middle)
           THEN th.last_price * Scale >= bb_middle[1]
           ELSE /\ trade.exit.bb.target = "opposite"
                /\ Truthy(bb_upper)
                /\ th.last_price * Scale >= bb_upper[1]

RuleFires(trade, rule, now, th, data) ==
    IF RuleSeq[rule] = "time" THEN TimeRuleFires(trade, now)
    ELSE IF RuleSeq[rule] = "ma" THEN MaRuleFires(trade, th)
    ELSE BbRuleFires(trade, th, data)

\* monitor_loop's walk over the trades and their rules from (idx, rule) on,
\* up to the first rule that fires: its trade and rule, or idx 0 at the end
\* of the walk; the status filter is applied where the walk enters a trade
RECURSIVE FirstFiring(_, _, _, _, _, _)
FirstFiring(idx, rule, now, trades, ths, datas) ==
    IF idx > Len(TradeOrder) THEN [idx |-> 0, rule |-> 0]
    ELSE LET trade == trades[TradeOrder[idx]]
         IN  IF rule > Len(RuleSeq)
             THEN FirstFiring(idx + 1, 1, now, trades, ths, datas)
             ELSE IF ~trade.present
                     \/ (rule = 1 /\ trade.status \notin {"filled", "exiting"})
             THEN FirstFiring(idx + 1, 1, now, trades, ths, datas)
             ELSE IF RuleFires(trade, rule, now, ths[trade.watch_id],
                               datas[trade.watch_id])
             THEN [idx |-> idx, rule |-> rule]
             ELSE FirstFiring(idx, rule + 1, now, trades, ths, datas)

\* a rule fires: the trade is exiting and the loop over its legs runs up to
\* its first closing order, or, with no leg to close, up to the broadcast
MonitorFire(pos, firedBefore) ==
    LET t == TradeOrder[pos.idx]
        leg == NextLeg(active_trades[t].orders, 1)
    IN  /\ active_trades' = [active_trades EXCEPT
               ![t].status = IF leg = 0 THEN "closed" ELSE "exiting"]
        /\ mon' = [pc |-> IF leg = 0 THEN "broadcast" ELSE "order",
                   idx |-> pos.idx, rule |-> pos.rule, leg |-> leg]
        /\ fired' = [firedBefore EXCEPT ![t] = @ \cup {RuleSeq[pos.rule]}]

\* the walk goes on from (idx, rule) with what the engine holds
MonitorWalk(idx, rule, now, ths, datas, firedBefore) ==
    LET pos == FirstFiring(idx, rule, now, active_trades, ths, datas)
    IN  IF pos.idx = 0
        THEN /\ mon' = MonIdle
             /\ fired' = firedBefore
             /\ UNCHANGED active_trades
        ELSE MonitorFire(pos, firedBefore)

\* one iteration of monitor_loop from read_prices to its first await in the
\* exit monitoring: price = 0 stands for no tick of the watch
MonitorTick(w, price, now) ==
    /\ mon.pc = "idle"
    /\ IF price = 0 THEN UNCHANGED engineVars ELSE CheckPrice(w, price)
    /\ MonitorWalk(1, 1, now, thresholds', latest_data',
                   [t \in TradeIds |-> {}])
    /\ UNCHANGED <<daily_bars, notifyVars, optionVars, close_orders, closer, placer,
                   expiryVars,
                   entryVars,
                   tickVars,
                   configVars,
                   executorVars,
                   loopVars,
                   sizeVars,
                   historyVars,
                   deleteVars>>

\* the gateway answers place_market_order for a leg of the exiting trade
\* (ok) or raises; after the last leg the trade is closed
MonitorOrder(ok) ==
    /\ mon.pc = "order"
    /\ LET t == TradeOrder[mon.idx]
           leg == NextLeg(active_trades[t].orders, mon.leg + 1)
       IN  /\ close_orders' = [close_orders EXCEPT
                   ![t][mon.leg] = IF ok THEN @ + 1 ELSE @]
           /\ IF leg = 0
              THEN /\ active_trades' = [active_trades EXCEPT ![t].status = "closed"]
                   /\ mon' = [mon EXCEPT !.pc = "broadcast", !.leg = 0]
              ELSE /\ mon' = [mon EXCEPT !.leg = leg]
                   /\ UNCHANGED active_trades
    /\ UNCHANGED <<engineVars, daily_bars, notifyVars, optionVars, closer, placer, fired,
                   expiryVars,
                   entryVars,
                   tickVars,
                   configVars,
                   executorVars,
                   loopVars,
                   sizeVars,
                   historyVars,
                   deleteVars>>

\* the broadcast of the closed trade returns: the walk goes on with the next
\* rule of the same trade
MonitorResume(now) ==
    /\ mon.pc = "broadcast"
    /\ MonitorWalk(mon.idx, mon.rule + 1, now, thresholds, latest_data, fired)
    /\ UNCHANGED <<engineVars, daily_bars, notifyVars, optionVars, close_orders, closer, placer,
                   expiryVars,
                   entryVars,
                   tickVars,
                   configVars,
                   executorVars,
                   loopVars,
                   sizeVars,
                   historyVars,
                   deleteVars>>

\* close_trade that turns away only an unknown or a closed trade
CloseRejectedUnlessExiting(trade) ==
    ~trade.present \/ trade.status = "closed"

\* close_trade answers with an error: the trade is unknown, or already
\* closed or exiting
CloseRejected(trade) ==
    ~trade.present \/ trade.status \in {"closed", "exiting"}

\* close_trade up to its first await
CloseTrade(t) ==
    LET trade == active_trades[t]
        leg == IF trade.present THEN NextLeg(trade.orders, 1) ELSE 0
    IN  /\ IF CloseRejected(trade)
           THEN UNCHANGED <<active_trades, closer>>
           ELSE /\ active_trades' = [active_trades EXCEPT
                       ![t].status = IF leg = 0 THEN "closed" ELSE "exiting"]
                /\ closer' = [closer EXCEPT ![t] =
                       IF leg = 0 THEN CloserIdle
                       ELSE [pc |-> IF trade.orders[leg].exit_limit # "none"
                                    THEN "cancel" ELSE "order",
                             leg |-> leg]]
        /\ UNCHANGED <<engineVars, daily_bars, notifyVars, optionVars, close_orders, mon, placer, fired,
                   expiryVars,
                   entryVars,
                   tickVars,
                   configVars,
                   executorVars,
                   loopVars,
                   sizeVars,
                   historyVars,
                   deleteVars>>

\* close_trade goes on to the next leg, or closes the trade after the last
CloserNext(t) ==
    LET trade == active_trades[t]
        leg == NextLeg(trade.orders, closer[t].leg + 1)
    IN  IF leg = 0
        THEN /\ active_trades' = [active_trades EXCEPT ![t].status = "closed"]
             /\ closer' = [closer EXCEPT ![t] = CloserIdle]
        ELSE /\ closer' = [closer EXCEPT ![t] =
                    [pc |-> IF trade.orders[leg].exit_limit # "none"
                            THEN "cancel" ELSE "order",
                     leg |-> leg]]
             /\ UNCHANGED active_trades

\* the gateway answers cancel_order for the leg's limit exit (ok) or raises,
\* which skips the closing order of the leg
CloseCancel(t, ok) ==
    /\ closer[t].pc = "cancel"
    /\ IF ok
       THEN /\ active_trades' = [active_trades EXCEPT
                   ![t].orders[closer[t].leg].exit_limit = "cancelled"]
            /\ closer' = [closer EXCEPT ![t].pc = "order"]
       ELSE CloserNext(t)
    /\ UNCHANGED <<engineVars, daily_bars, notifyVars, optionVars, close_orders, mon, placer, fired,
                   expiryVars,
                   entryVars,
                   tickVars,
                   configVars,
                   executorVars,
                   loopVars,
                   sizeVars,
                   historyVars,
                   deleteVars>>

\* the gateway answers place_market_order for the leg (ok) or raises
CloseOrder(t, ok) ==
    /\ closer[t].pc = "order"
    /\ close_orders' = [close_orders EXCEPT
            ![t][closer[t].leg] = IF ok THEN @ + 1 ELSE @]
    /\ CloserNext(t)
    /\ UNCHANGED <<engineVars, daily_bars, notifyVars, optionVars, mon, placer, fired,
                   expiryVars,
                   entryVars,
                   tickVars,
                   configVars,
                   executorVars,
                   loopVars,
                   sizeVars,
                   historyVars,
                   deleteVars>>

\* place_order once its entry orders are answered: the trade is registered
\* as filled, and the limit exit placement starts if it is enabled
PlaceOrder(t, w, exit, legs) ==
    /\ ~active_trades[t].present
    /\ watch_list[w].present
    /\ active_trades' = [active_trades EXCEPT ![t] =
           [present |-> TRUE, watch_id |-> w, status |-> "filled",
            exit |-> exit,
            orders |-> [i \in 1..Len(legs) |-> NewLeg(legs[i])]]]
    /\ close_orders' = [close_orders EXCEPT ![t] = [i \in 1..Len(legs) |-> 0]]
    /\ placer' = [placer EXCEPT ![t] = IF exit.limit THEN 1 ELSE 0]
    /\ UNCHANGED <<engineVars, daily_bars, notifyVars, optionVars, mon, closer, fired,
                   expiryVars,
                   entryVars,
                   tickVars,
                   configVars,
                   executorVars,
                   loopVars,
                   sizeVars,
                   historyVars,
                   deleteVars>>

\* place_order looks at its next entry result: one that is filled with a
\* fill price (filled) gets a limit exit order
PlaceLimit(t, filled) ==
    /\ placer[t] > 0
    /\ active_trades' = [active_trades EXCEPT ![t].orders[placer[t]].exit_limit =
           IF filled /\ active_trades[t].orders[placer[t]].has_qty
           THEN "open" ELSE @]
    /\ placer' = [placer EXCEPT ![t] =
           IF placer[t] < Len(active_trades[t].orders) THEN @ + 1 ELSE 0]
    /\ UNCHANGED <<engineVars, daily_bars, notifyVars, optionVars, close_orders, mon, closer, fired,
                   expiryVars,
                   entryVars,
                   tickVars,
                   configVars,
                   executorVars,
                   loopVars,
                   sizeVars,
                   historyVars,
                   deleteVars>>

(***************************************************************************)
(* The price loop of monitor_loop (app.py): a tick of the watch, the       *)
(* data_update broadcast, the forced refresh of the cached option set on   *)
(* a firing tick and the 'signal' broadcast.  Each action is one stretch   *)
(* of the loop from one await to the next.  The quotes of the contracts    *)
(* are not held: a refresh is its completion, recorded in trail.           *)
(***************************************************************************)
NotifyIdle == [pc |-> "idle", w |-> "none", price |-> 0, signal |-> NoSignal,
               set |-> NoOptions]

\* an entry of trail
Event(ev, listed, set, contracts) ==
    [ev |-> ev, listed |-> listed, set |-> set, contracts |-> contracts]

\* the price loop with the forced refresh left out
NextStageNoRefresh(pc, set) ==
    IF pc = "data2" THEN "signal" ELSE "data2"

\* the await a firing tick reaches after the one at pc, opt_cache being the
\* set it read from _options_cache
NextStage(pc, set) ==
    IF ~set.present \/ pc = "data2" THEN "signal"
    ELSE IF pc = "data" /\ set.call_raw # <<>> THEN "calls"
    ELSE IF pc \in {"data", "calls"} /\ set.put_raw # <<>> THEN "puts"
    ELSE "data2"

\* broadcast({"type": "signal", ...}) is called when the loop reaches it
Broadcasts(pc, tr) ==
    IF pc = "signal" THEN Append(tr, Event("signal", FALSE, NoOptions, <<>>))
    ELSE tr

\* read_prices answered with a price of the watch: check_price, and the
\* data_update broadcast when the price moved or a Signal fired
PriceTick(w, price) ==
    /\ notify.pc = "idle"
    /\ watch_list[w].present /\ watch_list[w].enabled
    /\ CheckPrice(w, price)
    /\ LET sig == CheckSignal(w, thresholds[w], watch_list[w], price)
           price_changed == price # last_broadcast_prices[w]
       IN  /\ notify' = IF price_changed \/ sig.present
                        THEN [pc |-> "data", w |-> w, price |-> price,
                              signal |-> sig, set |-> NoOptions]
                        ELSE NotifyIdle
           /\ trail' = IF sig.present
                       THEN <<Event("recorded",
                                    Len(signals') > 0 /\ signals'[Len(signals')] = sig,
                                    options_cache[w], <<>>)>>
                       ELSE <<>>
    /\ UNCHANGED <<last_broadcast_prices, daily_bars, tradeVars, optionVars,
                   expiryVars,
                   entryVars,
                   tickVars,
                   configVars,
                   executorVars,
                   loopVars,
                   sizeVars,
                   historyVars,
                   deleteVars>>

\* the data_update broadcast is done; on a firing tick the loop reads the
\* cached set and goes on to its refresh or to the 'signal' broadcast
NotifyData ==
    /\ notify.pc = "data"
    /\ last_broadcast_prices' =
           [last_broadcast_prices EXCEPT ![notify.w] = notify.price]
    /\ IF notify.signal.present
       THEN LET opt_cache == options_cache[notify.w]
                pc == NextStage("data", opt_cache)
            IN  /\ notify' = [notify EXCEPT !.pc = pc, !.set = opt_cache]
                /\ trail' = Broadcasts(pc,
                                Append(trail, Event("read", FALSE, opt_cache, <<>>)))
       ELSE /\ notify' = NotifyIdle
            /\ UNCHANGED trail
    /\ UNCHANGED <<engineVars, daily_bars, tradeVars, optionVars,
                   expiryVars,
                   entryVars,
                   tickVars,
                   configVars,
                   executorVars,
                   loopVars,
                   sizeVars,
                   historyVars,
                   deleteVars>>

\* refresh_option_prices(opt_cache[side]) returned
NotifyRefreshed(side) ==
    /\ notify.pc = (IF side = "call_raw" THEN "calls" ELSE "puts")
    /\ LET pc == NextStage(notify.pc, notify.set)
       IN  /\ notify' = [notify EXCEPT !.pc = pc]
           /\ trail' = Broadcasts(pc,
                           Append(trail, Event("refreshed", FALSE, NoOptions,
                                               notify.set[side])))
    /\ UNCHANGED <<engineVars, daily_bars, tradeVars, optionVars,
                   last_broadcast_prices,
                   expiryVars,
                   entryVars,
                   tickVars,
                   configVars,
                   executorVars,
                   loopVars,
                   sizeVars,
                   historyVars,
                   deleteVars>>

\* the second data_update broadcast is done
NotifyData2 ==
    /\ notify.pc = "data2"
    /\ notify' = [notify EXCEPT !.pc = NextStage("data2", notify.set)]
    /\ trail' = Broadcasts(notify'.pc, trail)
    /\ UNCHANGED <<engineVars, daily_bars, tradeVars, optionVars,
                   last_broadcast_prices,
                   expiryVars,
                   entryVars,
                   tickVars,
                   configVars,
                   executorVars,
                   loopVars,
                   sizeVars,
                   historyVars,
                   deleteVars>>

\* the 'signal' broadcast is done: the tick is over
NotifySignal ==
    /\ notify.pc = "signal"
    /\ notify' = NotifyIdle
    /\ UNCHANGED <<engineVars, daily_bars, tradeVars, optionVars,
                   last_broadcast_prices, trail,
                   expiryVars,
                   entryVars,
                   tickVars,
                   configVars,
                   executorVars,
                   loopVars,
                   sizeVars,
                   historyVars,
                   deleteVars>>

\* the price loop has not run yet
InitNotify ==
    /\ notify = NotifyIdle
    /\ last_broadcast_prices = [w \in WatchIds |-> 0]
    /\ trail = <<>>

(***************************************************************************)
(* The expiration selection of _sync_get_option_contracts.  An expiration  *)
(* is the number of its day, which orders like its "YYYYMMDD" string; a    *)
(* datetime is a day and a time of day, 0 at midnight.                     *)
(***************************************************************************)
\* datetime.strptime(exp, "%Y%m%d"): midnight of the day
Strptime(exp) == [day |-> exp, time |-> 0]

\* a >= b on datetimes
DatetimeGe(a, b) == a.day > b.day \/ (a.day = b.day /\ a.time >= b.time)

\* the expirations of a list of chains
RECURSIVE AllExpirations(_)
AllExpirations(cs) ==
    IF cs = <<>> THEN {} ELSE cs[1].expirations \cup AllExpirations(Tail(cs))

\* next((c for c in chains if c.exchange == "SMART"), chains[0])
SmartChain(cs) ==
    IF \E i \in 1..Len(cs) : cs[i].exchange = "SMART"
    THEN cs[CHOOSE i \in 1..Len(cs) :
                /\ cs[i].exchange = "SMART"
                /\ \A j \in 1..(i - 1) : cs[j].exchange # "SMART"]
    ELSE cs[1]

\* the expirations the selection chooses from: every chain's for a future,
\* the SMART chain's for a stock
ListedExpirations(cs, sec_type) ==
    IF sec_type = "FUT" THEN AllExpirations(cs)
    ELSE SmartChain(cs).expirations

\* sorted_exps of the futures branch, expirations of the stock branch
SortedExps(cs, sec_type, today, num_expirations) ==
    LET min_exp == today
    IN  Take(SortAsc({exp \in ListedExpirations(cs, sec_type) :
                         DatetimeGe(Strptime(exp), min_exp)}),
             num_expirations)

NoSelection == [present |-> FALSE]

\* _sync_get_option_contracts reads the clock and selects its expirations
GetOptionContracts(sec_type, num_expirations) ==
    /\ chains # <<>>
    /\ sorted_exps' = [present |-> TRUE, sec_type |-> sec_type,
                       num_expirations |-> num_expirations, today |-> clock,
                       exps |-> SortedExps(chains, sec_type, clock,
                                           num_expirations)]
    /\ UNCHANGED <<engineVars, daily_bars, tradeVars, optionVars, notifyVars,
                   chains, clock,
                   entryVars,
                   tickVars,
                   configVars,
                   executorVars,
                   loopVars,
                   sizeVars,
                   historyVars,
                   deleteVars>>

\* no chain listed, no selection made
InitExpiry ==
    /\ chains = <<>>
    /\ clock = [day |-> 1, time |-> 0]
    /\ sorted_exps = NoSelection

(***************************************************************************)
(* The entry orders of place_order (app.py).  An item is valid when it     *)
(* carries a conId and a positive ask.  The outcome of an item is          *)
(* "invalid" (no order placed, an error result appended), "placed" (the    *)
(* gateway answered with an order result), "error" (the gateway answered   *)
(* with an error result, which place_order completes with qty_requested    *)
(* and conId and appends like any other) or "raised" (the awaited call     *)
(* raised).                                                                *)
(***************************************************************************)
\* an exit setting with every rule disabled
NoExit == [time |-> [enabled |-> FALSE, value |-> 0],
           ma |-> [enabled |-> FALSE, cond |-> "above", dir |-> "+", pts |-> 1],
           bb |-> [enabled |-> FALSE, target |-> "middle"],
           limit |-> FALSE]

EntryIdle == [pc |-> "idle", t |-> "none", w |-> "none", exit |-> NoExit,
              items |-> <<>>, results |-> <<>>]

\* the results the loop over req.items appends from item i on without
\* awaiting: those of the invalid items up to the next valid one
RECURSIVE SkipInvalid(_, _)
SkipInvalid(items, i) ==
    IF i > Len(items) \/ items[i] THEN <<>>
    ELSE <<"invalid">> \o SkipInvalid(items, i + 1)

\* a result of place_order as the closing loops see it: it carries conId
\* and qty_requested unless its item was invalid
HasQty(result) == result # "invalid"

\* place_order with every call that raises caught and recorded on its leg
EntryAnswerCaught(answer) ==
    LET res == Append(entry.results, answer)
        all == res \o SkipInvalid(entry.items, Len(res) + 1)
    IN  IF Len(all) < Len(entry.items)
        THEN /\ entry' = [entry EXCEPT !.results = all]
             /\ UNCHANGED <<active_trades, close_orders, placer>>
        ELSE /\ entry' = [entry EXCEPT !.pc = "done", !.results = all]
             /\ active_trades' = [active_trades EXCEPT ![entry.t] =
                    [present |-> TRUE, watch_id |-> entry.w,
                     status |-> "filled", exit |-> entry.exit,
                     orders |-> [i \in 1..Len(all) |-> NewLeg(HasQty(all[i]))]]]
             /\ close_orders' = [close_orders EXCEPT ![entry.t] =
                    [i \in 1..Len(all) |-> 0]]
             /\ placer' = [placer EXCEPT ![entry.t] =
                    IF entry.exit.limit THEN 1 ELSE 0]

\* the rest of place_order once the awaited place_market_order of the
\* current item is answered: a call that raises ends the handler, there
\* being no try around it; otherwise the result is appended, the loop runs
\* on to its next await, and after the last item the trade is registered
\* as filled
EntryAnswer(answer) ==
    IF answer = "raised"
    THEN /\ entry' = [entry EXCEPT !.pc = "raised",
                                   !.results = Append(@, answer)]
         /\ UNCHANGED <<active_trades, close_orders, placer>>
    ELSE EntryAnswerCaught(answer)

\* place_order is called: the loop over req.items runs to its first await
\* or, with no valid item, to the registration of the trade
PlaceOrderCall(t, w, exit, items) ==
    /\ entry.pc \in {"idle", "done", "raised"}
    /\ ~active_trades[t].present
    /\ watch_list[w].present
    /\ LET all == SkipInvalid(items, 1)
       IN  IF Len(all) < Len(items)
           THEN /\ entry' = [pc |-> "order", t |-> t, w |-> w, exit |-> exit,
                             items |-> items, results |-> all]
                /\ UNCHANGED <<active_trades, close_orders, placer>>
           ELSE /\ entry' = [pc |-> "done", t |-> t, w |-> w, exit |-> exit,
                             items |-> items, results |-> all]
                /\ active_trades' = [active_trades EXCEPT ![t] =
                       [present |-> TRUE, watch_id |-> w, status |-> "filled",
                        exit |-> exit,
                        orders |-> [i \in 1..Len(all) |-> NewLeg(FALSE)]]]
                /\ close_orders' = [close_orders EXCEPT ![t] =
                       [i \in 1..Len(all) |-> 0]]
                /\ placer' = [placer EXCEPT ![t] = IF exit.limit THEN 1 ELSE 0]
    /\ UNCHANGED <<engineVars, daily_bars, notifyVars, optionVars, expiryVars,
                   mon, closer, fired,
                   tickVars,
                   configVars,
                   executorVars,
                   loopVars,
                   sizeVars,
                   historyVars,
                   deleteVars>>

\* the gateway answers the entry order of the current item
PlaceOrderAnswer(answer) ==
    /\ entry.pc = "order"
    /\ EntryAnswer(answer)
    /\ UNCHANGED <<engineVars, daily_bars, notifyVars, optionVars, expiryVars,
                   mon, closer, fired,
                   tickVars,
                   configVars,
                   executorVars,
                   loopVars,
                   sizeVars,
                   historyVars,
                   deleteVars>>

\* no request yet
InitEntry == entry = EntryIdle

(***************************************************************************)
(* One pass of the while loop of monitor_loop (app.py) as the walk over    *)
(* what it processes: the price of each watch read_prices answered with,   *)
(* the exit rules of each trade, and the hourly recalculation of each      *)
(* watch when it is due.  The whole pass runs inside one try whose handler *)
(* logs, broadcasts and goes to the sleep; only the body of the hourly     *)
(* loop has a try of its own.                                              *)
(***************************************************************************)
\* what a pass processes: the k-th price, the k-th trade's exit rules, the
\* k-th watch's hourly recalculation
TickItems == {"price", "exit", "hourly"} \X (1..MaxItems)

TickSleep == [pc |-> "sleep", i |-> 0, due |-> FALSE]

\* the stage after the one at pc
StageAfter(pc, due) ==
    IF pc = "price" THEN "exit"
    ELSE IF pc = "exit" /\ due THEN "hourly"
    ELSE "sleep"

\* the walk after item i of the stage at pc: the next item of the stage, or
\* the first of the next stage
TickAfter(pc, i, due) ==
    IF i < MaxItems THEN [pc |-> pc, i |-> i + 1, due |-> due]
    ELSE [pc |-> StageAfter(pc, due), i |-> IF StageAfter(pc, due) = "sleep"
                                           THEN 0 ELSE 1,
          due |-> due]

\* the walk with a try around the body of each of its loops
TickStepIsolated(item) ==
    /\ tick' = TickAfter(tick.pc, tick.i, tick.due)
    /\ processed' = IF item \in raising THEN processed
                    ELSE processed \cup {item}

\* the walk goes through its current item: an exception raised in the price
\* loop or in the exit monitoring leaves the pass for the handler of the
\* outer try and the sleep, one raised in the hourly loop is logged there
\* and the loop goes on
TickStep(item) ==
    IF item \in raising /\ tick.pc # "hourly"
    THEN /\ tick' = [pc |-> "sleep", i |-> 0, due |-> tick.due]
         /\ UNCHANGED processed
    ELSE TickStepIsolated(item)

\* the sleep is over and engine.running holds: a pass begins, with the
\* hourly recalculation due or not
TickBegin(due) ==
    /\ tick.pc = "sleep"
    /\ tick' = [pc |-> "price", i |-> 1, due |-> due]
    /\ processed' = {}
    /\ UNCHANGED <<engineVars, daily_bars, tradeVars, optionVars, notifyVars,
                   expiryVars, entryVars, raising,
                   configVars,
                   executorVars,
                   loopVars,
                   sizeVars,
                   historyVars,
                   deleteVars>>

\* the pass processes its current item
TickProcess ==
    /\ tick.pc # "sleep"
    /\ TickStep(<<tick.pc, tick.i>>)
    /\ UNCHANGED <<engineVars, daily_bars, tradeVars, optionVars, notifyVars,
                   expiryVars, entryVars, raising,
                   configVars,
                   executorVars,
                   loopVars,
                   sizeVars,
                   historyVars,
                   deleteVars>>

\* no pass yet, nothing raises
InitTick ==
    /\ tick = TickSleep
    /\ processed = {}
    /\ raising = {}

(***************************************************************************)
(* load_config (app.py).  A persisted entry is "valid", "deprecated" (a    *)
(* valid entry that still carries the 'strategy' field, which is popped),  *)
(* "unknown" (a valid entry with a field WatchItem does not have) or       *)
(* "missing" (an entry without a required field).  Each entry has an id    *)
(* of its own, here its position.                                          *)
(***************************************************************************)
EntryKinds == {"valid", "deprecated", "unknown", "missing"}

\* WatchItem(**item_data) raises TypeError for an unexpected keyword and
\* for a missing required one
Constructs(kind) == kind \in {"valid", "deprecated"}

\* the entries the loop adds before the first one that raises: the try is
\* around the whole loop
LoadedUpTo(entries) ==
    {i \in 1..Len(entries) : \A j \in 1..i : Constructs(entries[j])}

\* load_config runs
LoadConfig ==
    /\ loaded = NoneV
    /\ loaded' = Some(LoadedUpTo(config_file))
    /\ UNCHANGED <<engineVars, daily_bars, tradeVars, optionVars, notifyVars,
                   expiryVars, entryVars, tickVars, config_file,
                   executorVars,
                   loopVars,
                   sizeVars,
                   historyVars,
                   deleteVars>>

\* an empty configuration, not loaded
InitConfig ==
    /\ config_file = <<>>
    /\ loaded = NoneV

(***************************************************************************)
(* The gateway executor (ib_manager.py): every gateway operation of        *)
(* IBManager is a function submitted to _ib_executor, by run_in_executor   *)
(* in the async wrappers and by submit in the connected property.  The     *)
(* pool has max_workers threads; an idle thread takes the oldest function  *)
(* of the work queue and runs it to its end.                               *)
(***************************************************************************)
\* the coroutines that submit: the monitor loop, a watch initialisation
\* task and an API handler
IbCallers == {"monitor", "init", "handler"}

\* the threads of the pool with one thread more than ThreadPoolExecutor
\* is given
IbWorkersTwo == 1..(max_workers + 1)

\* the threads of ThreadPoolExecutor(max_workers=1)
IbWorkers == 1..max_workers

NoOp == [id |-> 0, caller |-> "none"]

\* the operations being executed
IbExecuting == {ib_executing[k] : k \in IbWorkers} \ {NoOp}

\* a coroutine submits a gateway operation
IbSubmit(caller) ==
    /\ Len(ib_submitted) < MaxOps
    /\ LET op == [id |-> Len(ib_submitted) + 1, caller |-> caller]
       IN  /\ ib_queue' = Append(ib_queue, op)
           /\ ib_submitted' = Append(ib_submitted, op)
    /\ UNCHANGED <<engineVars, daily_bars, tradeVars, optionVars, notifyVars,
                   expiryVars, entryVars, tickVars, configVars,
                   ib_executing, ib_started,
                   loopVars,
                   sizeVars,
                   historyVars,
                   deleteVars>>

\* an idle worker takes the oldest operation of the queue
IbTake(k) ==
    /\ ib_executing[k] = NoOp
    /\ ib_queue # <<>>
    /\ ib_executing' = [ib_executing EXCEPT ![k] = Head(ib_queue)]
    /\ ib_queue' = Tail(ib_queue)
    /\ ib_started' = Append(ib_started, Head(ib_queue))
    /\ UNCHANGED <<engineVars, daily_bars, tradeVars, optionVars, notifyVars,
                   expiryVars, entryVars, tickVars, configVars,
                   ib_submitted,
                   loopVars,
                   sizeVars,
                   historyVars,
                   deleteVars>>

\* the operation a worker executes returns or raises
IbFinish(k) ==
    /\ ib_executing[k] # NoOp
    /\ ib_executing' = [ib_executing EXCEPT ![k] = NoOp]
    /\ UNCHANGED <<engineVars, daily_bars, tradeVars, optionVars, notifyVars,
                   expiryVars, entryVars, tickVars, configVars,
                   ib_queue, ib_submitted, ib_started,
                   loopVars,
                   sizeVars,
                   historyVars,
                   deleteVars>>

\* nothing submitted, every worker idle
InitExecutor ==
    /\ ib_queue = <<>>
    /\ ib_executing = [k \in IbWorkers |-> NoOp]
    /\ ib_submitted = <<>>
    /\ ib_started = <<>>

(***************************************************************************)
(* The life of the monitor: start_monitoring, stop_monitoring, the tasks   *)
(* running monitor_loop and _init_new_watch (app.py).  A task stands at    *)
(* the await it is suspended in; an action is the stretch of code from     *)
(* the return of that await to the next one.  The work of a pass is kept   *)
(* as the awaits it goes through: the status broadcast and ib.connect()    *)
(* of a pass that found the gateway disconnected, read_prices, the         *)
(* closing orders of an exit that fired, the sleep.  Phase 1 is one await. *)
(* The gateway operations run in the single executor thread in the order   *)
(* of their submission: a task whose operation was submitted before the    *)
(* unsubscribe_all of stop_monitoring returns from it first, one whose     *)
(* operation was submitted behind it returns after it.                     *)
(***************************************************************************)
LoopIds == 1..MaxLoops

\* the awaits of a gateway operation
GatewayAwaits == {"phase1", "connect", "read", "order", "cleanup"}

\* the awaits inside a pass that has begun its work
InPass == {"status", "connect", "read", "order"}

\* a task that was not created, has returned, or was cancelled
Ended == {"none", "done", "cancelled"}

NoLoop == [pc |-> "none", cancel |-> FALSE, found |-> "none", seen |-> {},
           legs |-> 0, behind |-> FALSE]

StopIdle == [pc |-> "idle", ahead |-> {}, order |-> <<>>]

StarterIdle == [pc |-> "idle", behind |-> FALSE]

\* the watch of the model's _init_new_watch task
StarterWatch == "w1"

\* the task suspends in the await at pc: a gateway operation submitted
\* while the unsubscribe_all of stop_monitoring waits runs behind it
Suspend(rec, pc) ==
    [rec EXCEPT !.pc = pc,
                !.behind = pc \in GatewayAwaits /\ stopper.pc = "unsub"]

\* the await ib.connect() leads to, with every answer taken for a success
AfterConnectAlways(ok) == "read"

\* the await ib.connect() leads to: read_prices after a success, else the
\* retry delay and the next pass
AfterConnect(ok) == IF ok THEN "read" ELSE "sleep10"

\* the top of the while loop: the test of engine.running, then of
\* ib.connected, which answered conn
PassStart(rec, conn) ==
    LET fresh == [rec EXCEPT !.seen = {}, !.legs = 0]
    IN  IF ~running THEN Suspend([fresh EXCEPT !.found = "none"], "cleanup")
        ELSE IF conn THEN Suspend([fresh EXCEPT !.found = "up"], "read")
        ELSE Suspend([fresh EXCEPT !.found = "down"], "status")

\* the tasks with a gateway operation submitted and not yet returned
Pending ==
    {l \in LoopIds : loops[l].pc \in GatewayAwaits /\ ~loops[l].cancel}
        \cup (IF starter.pc \in {"bars", "subscribe"} THEN {0} ELSE {})

\* a task returns from its gateway operation: stop_monitoring waits for
\* one task less
Returned(id) == stopper' = [stopper EXCEPT !.ahead = @ \ {id}]

\* POST /api/start: "already running", or a new task running monitor_loop
\* (of the MaxLoops tasks of the model, the first not yet created)
StartMonitoring ==
    /\ running \/ \E l \in LoopIds : loops[l].pc = "none"
    /\ IF running
       THEN UNCHANGED <<running, monitor_task, loops, stopped>>
       ELSE LET l == CHOOSE k \in LoopIds :
                        /\ loops[k].pc = "none"
                        /\ \A j \in LoopIds : loops[j].pc = "none" => k <= j
            IN  /\ running' = TRUE
                /\ monitor_task' = l
                /\ loops' = [loops EXCEPT ![l] = Suspend(NoLoop, "phase1")]
                /\ stopped' = FALSE
    /\ UNCHANGED <<engineVars, daily_bars, tradeVars, optionVars, notifyVars,
                   expiryVars, entryVars, tickVars, configVars, executorVars,
                   stopper, starter, subscriptions, gateway_up,
                   sizeVars,
                   historyVars,
                   deleteVars>>

\* the closing order the exit monitoring has at the gateway, as the trade's
\* position and the leg
OrderInFlight ==
    IF mon.pc = "order" THEN <<mon.idx, mon.leg>> ELSE <<>>

\* POST /api/stop up to its await of ib.unsubscribe_all()
StopMonitoring ==
    /\ stopper.pc = "idle"
    /\ running' = FALSE
    /\ stopper' = [pc |-> "unsub", ahead |-> Pending, order |-> OrderInFlight]
    /\ UNCHANGED <<engineVars, daily_bars, tradeVars, optionVars, notifyVars,
                   expiryVars, entryVars, tickVars, configVars, executorVars,
                   monitor_task, loops, starter, subscriptions, gateway_up,
                   stopped,
                   sizeVars,
                   historyVars,
                   deleteVars>>

\* unsubscribe_all has run, after the operations submitted before it:
\* stop_monitoring cancels the task monitor_task names and returns
StopUnsubscribed ==
    /\ stopper.pc = "unsub" /\ stopper.ahead = {}
    /\ stopper.order # <<>> => OrderInFlight # stopper.order
    /\ subscriptions' = {}
    /\ loops' = [l \in LoopIds |->
           [loops[l] EXCEPT !.behind = FALSE,
                            !.cancel = @ \/ (l = monitor_task
                                             /\ loops[l].pc \notin Ended)]]
    /\ starter' = [starter EXCEPT !.behind = FALSE]
    /\ monitor_task' = 0
    /\ stopper' = StopIdle
    /\ stopped' = TRUE
    /\ UNCHANGED <<engineVars, daily_bars, tradeVars, optionVars, notifyVars,
                   expiryVars, entryVars, tickVars, configVars, executorVars,
                   running, gateway_up,
                   sizeVars,
                   historyVars,
                   deleteVars>>

\* the stretch of monitor_loop from the return of the await the task is
\* suspended in to its next await: conn is what ib.connected answers where
\* the stretch asks, ok what ib.connect() answered, legs the closing orders
\* of the exit rule that fires in the pass
LoopStep(l, conn, ok, legs) ==
    LET rec == loops[l]
        see(s) == [rec EXCEPT !.seen = @ \cup s]
    IN  /\ rec.pc \notin Ended /\ ~rec.cancel
        /\ rec.pc \in GatewayAwaits => ~rec.behind
        /\ conn => gateway_up
        /\ ok => gateway_up
        /\ loops' = [loops EXCEPT ![l] =
               CASE rec.pc = "phase1" -> PassStart(rec, conn)
                 [] rec.pc = "status" ->
                        IF conn
                        THEN Suspend(see({"status", "reconnect", "connected"}),
                                     "read")
                        ELSE Suspend(see({"status"}), "connect")
                 [] rec.pc = "connect" ->
                        Suspend(see(IF ok THEN {"reconnect", "connected"}
                                    ELSE {"reconnect"}),
                                AfterConnect(ok))
                 [] rec.pc = "sleep10" -> PassStart(rec, conn)
                 [] rec.pc = "read" ->
                        IF legs > 0
                        THEN Suspend([see({"eval"}) EXCEPT !.legs = legs],
                                     "order")
                        ELSE Suspend(see({"eval"}), "sleep")
                 [] rec.pc = "order" ->
                        IF rec.legs > 1
                        THEN Suspend([rec EXCEPT !.legs = @ - 1], "order")
                        ELSE Suspend([rec EXCEPT !.legs = 0], "sleep")
                 [] rec.pc = "sleep" -> PassStart(rec, conn)
                 [] rec.pc = "cleanup" -> [rec EXCEPT !.pc = "done"]]
        /\ subscriptions' =
               IF rec.pc = "phase1" /\ gateway_up
               THEN subscriptions \cup {StarterWatch}
               ELSE IF rec.pc = "cleanup" THEN {}
               ELSE subscriptions
        /\ IF rec.pc \in GatewayAwaits THEN Returned(l) ELSE UNCHANGED stopper
        /\ UNCHANGED <<engineVars, daily_bars, tradeVars, optionVars,
                       notifyVars, expiryVars, entryVars, tickVars, configVars,
                       executorVars, running, monitor_task, starter,
                       gateway_up, stopped,
                   sizeVars,
                   historyVars,
                   deleteVars>>

\* the task is resumed with the CancelledError of monitor_task.cancel(),
\* which no 'except Exception' of monitor_loop catches: the task is over.
\* The gateway operation it had in flight has run (effect) or was
\* withdrawn from the queue; of these operations the final unsubscribe_all
\* changes the subscriptions (Phase 1 subscribes on its return only).
LoopCancelled(l, effect) ==
    /\ loops[l].cancel /\ loops[l].pc \notin Ended
    /\ loops' = [loops EXCEPT ![l].pc = "cancelled"]
    /\ subscriptions' = IF effect /\ loops[l].pc = "cleanup" THEN {}
                        ELSE subscriptions
    /\ UNCHANGED <<engineVars, daily_bars, tradeVars, optionVars, notifyVars,
                   expiryVars, entryVars, tickVars, configVars, executorVars,
                   running, monitor_task, stopper, starter, gateway_up,
                   stopped,
                   sizeVars,
                   historyVars,
                   deleteVars>>

\* add_watch or update_watch starts _init_new_watch: engine.running and
\* ib.connected hold
StartInit ==
    /\ starter.pc = "idle"
    /\ running /\ gateway_up
    /\ starter' = [pc |-> "bars", behind |-> stopper.pc = "unsub"]
    /\ UNCHANGED <<engineVars, daily_bars, tradeVars, optionVars, notifyVars,
                   expiryVars, entryVars, tickVars, configVars, executorVars,
                   running, monitor_task, loops, stopper, subscriptions,
                   gateway_up, stopped,
                   sizeVars,
                   historyVars,
                   deleteVars>>

\* _init_new_watch goes on from the return of its await: with the bars
\* (enough or not) to the subscription or to its end, from subscribe_price
\* (subscribed when the gateway is connected) to its end
InitStep(enough) ==
    /\ starter.pc \in {"bars", "subscribe"} /\ ~starter.behind
    /\ starter' = IF starter.pc = "bars" /\ enough
                  THEN [pc |-> "subscribe", behind |-> stopper.pc = "unsub"]
                  ELSE StarterIdle
    /\ subscriptions' = IF starter.pc = "subscribe" /\ gateway_up
                        THEN subscriptions \cup {StarterWatch}
                        ELSE subscriptions
    /\ Returned(0)
    /\ UNCHANGED <<engineVars, daily_bars, tradeVars, optionVars, notifyVars,
                   expiryVars, entryVars, tickVars, configVars, executorVars,
                   running, monitor_task, loops, gateway_up, stopped,
                   sizeVars,
                   historyVars,
                   deleteVars>>

\* the gateway goes down or comes back
GatewayFlip ==
    /\ gateway_up' = ~gateway_up
    /\ UNCHANGED <<engineVars, daily_bars, tradeVars, optionVars, notifyVars,
                   expiryVars, entryVars, tickVars, configVars, executorVars,
                   running, monitor_task, loops, stopper, starter,
                   subscriptions, stopped,
                   sizeVars,
                   historyVars,
                   deleteVars>>

\* not monitoring, no task, the gateway connected
InitLoops ==
    /\ running = FALSE
    /\ monitor_task = 0
    /\ loops = [l \in LoopIds |-> NoLoop]
    /\ stopper = StopIdle
    /\ starter = StarterIdle
    /\ subscriptions = {}
    /\ gateway_up = TRUE
    /\ stopped = FALSE

(***************************************************************************)
(* Quantity sizing of place_order (app.py):                                *)
(*     qty = max(1, int(amount / (ask * multiplier)))                      *)
(* amount and ask come from the JSON body, the multiplier from the option  *)
(* cache.  ask is a decimal fraction and so a Python float: the product    *)
(* and the quotient are floating-point operations, each rounded to the     *)
(* nearest representable value, ties to even.  A float is m * 2^e with     *)
(* 2^(MantissaBits-1) <= m < 2^MantissaBits, or zero; the significand is   *)
(* narrowed from the 53 bits of binary64 to MantissaBits, the rounding     *)
(* rule is the same.  The inputs are kept to those Python represents as    *)
(* the model does: integer amounts and multipliers below 2^MantissaBits    *)
(* are exact, a price in hundredths is rounded when it is parsed.          *)
(***************************************************************************)
MantissaBits == 13

RECURSIVE Pow2(_)
Pow2(k) == IF k = 0 THEN 1 ELSE 2 * Pow2(k - 1)

\* n / d rounded to the nearest integer, ties to the even one
RoundHalfEven(n, d) ==
    LET q == n \div d
        r == n % d
    IN  IF 2 * r < d THEN q
        ELSE IF 2 * r > d THEN q + 1
        ELSE IF q % 2 = 0 THEN q ELSE q + 1

\* the float nearest to (n / d) * 2^e, for n >= 0 and d > 0
RECURSIVE Float(_, _, _)
Float(n, d, e) ==
    IF n = 0 THEN [m |-> 0, e |-> 0]
    ELSE IF n < d * Pow2(MantissaBits - 1) THEN Float(2 * n, d, e - 1)
    ELSE IF n >= d * Pow2(MantissaBits) THEN Float(n, 2 * d, e + 1)
    ELSE LET m == RoundHalfEven(n, d)
         IN  IF m = Pow2(MantissaBits)
             THEN [m |-> Pow2(MantissaBits - 1), e |-> e + 1]
             ELSE [m |-> m, e |-> e]

\* float * float and float / float
FloatMul(x, y) == Float(x.m * y.m, 1, x.e + y.e)

FloatDiv(x, y) == Float(x.m, y.m, x.e - y.e)

\* int(x) of a float x >= 0
FloatInt(x) == IF x.e >= 0 THEN x.m * Pow2(x.e) ELSE x.m \div Pow2(0 - x.e)

Max(a, b) == IF a >= b THEN a ELSE b

\* the quantity with the quotient taken for exact: amount, the price in
\* hundredths and the multiplier as the integers they stand for
QtyExact(amount, ask, multiplier) ==
    Max(1, (amount * 100) \div (ask * multiplier))

\* qty of place_order for an amount, an ask price given in hundredths and a
\* multiplier
Qty(amount, ask, multiplier) ==
    Max(1, FloatInt(FloatDiv(Float(amount, 1, 0),
                             FloatMul(Float(ask, 100, 0),
                                      Float(multiplier, 1, 0)))))

NoSizing == [amount |-> 0, ask |-> 1, multiplier |-> 100, qty |-> 0,
             done |-> FALSE]

\* place_order sizes the leg
SizeLeg ==
    /\ ~sizing.done
    /\ sizing' = [sizing EXCEPT
           !.qty = Qty(sizing.amount, sizing.ask, sizing.multiplier),
           !.done = TRUE]
    /\ UNCHANGED <<engineVars, daily_bars, tradeVars, optionVars, notifyVars,
                   expiryVars, entryVars, tickVars, configVars, executorVars,
                   loopVars,
                   historyVars,
                   deleteVars>>

InitSizing == sizing = NoSizing

(***************************************************************************)
(* The signal history (strategy.py): self.signals.append(signal) where a   *)
(* Signal is emitted, get_signals(limit) and clear_signals().              *)
(***************************************************************************)
NotRead == [present |-> FALSE]

\* s[k:] of a Python list, for any integer k: a negative k counts from the
\* end, and -0 is 0
SliceFrom(s, k) ==
    LET start == IF k < 0 THEN Max(0, Len(s) + k) ELSE Min(k, Len(s))
    IN  SubSeq(s, start + 1, Len(s))

\* get_signals(limit): reversed(self.signals[-limit:])
GetSignals(limit) == Reverse(SliceFrom(signals, 0 - limit))

\* self.signals.append(signal)
AppendSignal(sig) ==
    /\ Len(signals) < MaxHistory
    /\ signals' = Append(signals, sig)
    /\ UNCHANGED <<watch_list, thresholds, latest_data, gen_signals, candles,
                   daily_bars, tradeVars, optionVars, notifyVars, expiryVars,
                   entryVars, tickVars, configVars, executorVars, loopVars,
                   sizeVars, historyVars,
                   deleteVars>>

\* GET /api/signals?limit=...
GetSignalsCall(limit) ==
    /\ got_signals' = [present |-> TRUE, limit |-> limit,
                       result |-> GetSignals(limit)]
    /\ UNCHANGED <<engineVars, daily_bars, tradeVars, optionVars, notifyVars,
                   expiryVars, entryVars, tickVars, configVars, executorVars,
                   loopVars, sizeVars,
                   deleteVars>>

\* DELETE /api/signals
ClearSignalsCall ==
    /\ ClearSignals
    /\ UNCHANGED <<daily_bars, tradeVars, optionVars, notifyVars, expiryVars,
                   entryVars, tickVars, configVars, executorVars, loopVars,
                   sizeVars, historyVars,
                   deleteVars>>

InitHistory == got_signals = NotRead

(***************************************************************************)
(* Stopping the monitor during an exit.  The task start_monitoring creates *)
(* is followed through its exit monitoring (mon): monitor_task = 1 while   *)
(* the task is the one monitor_task names, 0 once stop_monitoring has      *)
(* called cancel() on it.  A start is taken when no stop is in progress    *)
(* and the task before has ended.                                          *)
(***************************************************************************)
StartExitMonitor ==
    /\ ~running
    /\ monitor_task = 0 /\ mon.pc = "idle" /\ stopper.pc = "idle"
    /\ running' = TRUE
    /\ monitor_task' = 1
    /\ stopped' = FALSE
    /\ UNCHANGED <<engineVars, daily_bars, tradeVars, optionVars, notifyVars,
                   expiryVars, entryVars, tickVars, configVars, executorVars,
                   sizeVars, historyVars, loops, stopper, starter,
                   subscriptions, gateway_up,
                   deleteVars>>

\* the cancelled task is resumed with CancelledError in the await of its
\* exit monitoring (a closing order or the broadcast): neither 'except
\* Exception' catches it and the task ends where it stands.  The order in
\* flight has reached the gateway (effect) or was withdrawn.
MonitorCancelled(effect) ==
    /\ monitor_task = 0 /\ mon.pc # "idle"
    /\ mon' = MonIdle
    /\ close_orders' =
           IF effect /\ mon.pc = "order"
           THEN [close_orders EXCEPT ![TradeOrder[mon.idx]][mon.leg] = @ + 1]
           ELSE close_orders
    /\ UNCHANGED <<engineVars, daily_bars, notifyVars, optionVars,
                   active_trades, closer, placer, fired, expiryVars, entryVars,
                   tickVars, configVars, executorVars, loopVars, sizeVars,
                   historyVars,
                   deleteVars>>

(***************************************************************************)
(* delete_watch against the tasks in flight (app.py).  _init_new_watch and *)
(* the hourly recalculation hold the WatchItem they were started with and  *)
(* pass it, with its id, to calculate_thresholds, subscribe_price and      *)
(* cache_options_for_watch; none of them looks the id up in watch_list     *)
(* again.                                                                  *)
(***************************************************************************)
DeleterIdle == [pc |-> "idle", w |-> "none"]

\* engine.calculate_thresholds(w, df, watch) with the WatchItem the caller
\* holds
CalculateThresholdsHeld(w, watch) ==
    LET df == daily_bars[w]
    IN  /\ IF CalcFails(df, watch)
           THEN UNCHANGED <<thresholds, latest_data, gen_signals, candles>>
           ELSE /\ thresholds' = [thresholds EXCEPT ![w] = NewCache(df, watch)]
                /\ latest_data' = [latest_data EXCEPT
                                      ![w] = CalcData(thresholds'[w])]
                /\ gen_signals' = [gen_signals EXCEPT ![w] = 0]
                /\ candles' = [candles EXCEPT ![w] = LastN(df, 120)]
        /\ UNCHANGED <<watch_list, signals>>

\* cache_options_for_watch(w, watch, ma_price) up to its await of the
\* gateway, with the WatchItem the caller holds
StartFetchHeld(c, w, ma_price, watch) ==
    fetch' = [fetch EXCEPT ![c] =
        [present |-> TRUE, watch_id |-> w, ma_price |-> ma_price,
         direction |-> watch.direction]]

\* POST /api/watch while monitoring: the watch is added and its
\* _init_new_watch task created
AddWatch(w, watch) ==
    /\ ~watch_list[w].present /\ w \notin deleted
    /\ watch_list' = [watch_list EXCEPT ![w] = watch]
    /\ IF running /\ gateway_up
       THEN /\ init_task.pc = "idle"
            /\ init_task' = [pc |-> "bars", w |-> w, ma_value |-> 0]
            /\ held' = [held EXCEPT !["init"] = watch]
       ELSE UNCHANGED <<init_task, held>>
    /\ UNCHANGED <<thresholds, signals, latest_data, gen_signals, candles,
                   daily_bars, tradeVars, notifyVars, options_cache, fetch,
                   hourly, last_hourly, chain_strikes, request, otm,
                   expiryVars, entryVars, tickVars, configVars, executorVars,
                   loopVars, sizeVars, historyVars, deleter, deleted>>

\* _init_new_watch: the bars arrive, the baseline is calculated and
\* subscribe_price awaited
InitHeldBars ==
    /\ init_task.pc = "bars"
    /\ LET w == init_task.w
       IN  /\ CalculateThresholdsHeld(w, held["init"])
           /\ init_task' = IF CalcFails(daily_bars[w], held["init"])
                           THEN InitIdle
                           ELSE [pc |-> "subscribe", w |-> w,
                                 ma_value |-> thresholds'[w].ma_value]
    /\ UNCHANGED <<daily_bars, tradeVars, notifyVars, options_cache, fetch,
                   hourly, last_hourly, chain_strikes, request, otm,
                   expiryVars, entryVars, tickVars, configVars, executorVars,
                   loopVars, sizeVars, historyVars, deleteVars>>

\* _init_new_watch: subscribe_price has run (the stream is there when the
\* gateway is connected), the option chain is awaited
InitHeldSubscribed ==
    /\ init_task.pc = "subscribe"
    /\ subscriptions' = IF gateway_up
                        THEN subscriptions \cup {init_task.w}
                        ELSE subscriptions
    /\ StartFetchHeld("init", init_task.w, init_task.ma_value, held["init"])
    /\ init_task' = [init_task EXCEPT !.pc = "chain"]
    /\ UNCHANGED <<engineVars, daily_bars, tradeVars, notifyVars,
                   options_cache, hourly, last_hourly, chain_strikes, request,
                   otm, expiryVars, entryVars, tickVars, configVars,
                   executorVars, sizeVars, historyVars, deleteVars, running,
                   monitor_task, loops, stopper, starter, gateway_up, stopped>>

\* the hourly recalculation reaches an enabled watch of its copy of the
\* watch list and awaits the bars
HourlyHeldStart(w) ==
    /\ running
    /\ hourly.pc = "idle"
    /\ watch_list[w].present /\ watch_list[w].enabled
    /\ hourly' = [pc |-> "bars", w |-> w]
    /\ held' = [held EXCEPT !["hourly"] = watch_list[w]]
    /\ UNCHANGED <<engineVars, daily_bars, tradeVars, notifyVars,
                   options_cache, fetch, init_task, last_hourly, chain_strikes,
                   request, otm, expiryVars, entryVars, tickVars, configVars,
                   executorVars, loopVars, sizeVars, historyVars, deleter,
                   deleted>>

\* the bars of the hourly recalculation arrive: a new baseline, and a new
\* option set if it has moved from the cached reference
HourlyHeldBars ==
    /\ hourly.pc = "bars"
    /\ LET w == hourly.w
           watch == held["hourly"]
       IN  /\ CalculateThresholdsHeld(w, watch)
           /\ IF CalcFails(daily_bars[w], watch)
              THEN /\ hourly' = HourlyIdle
                   /\ last_hourly' = [last_hourly EXCEPT ![w] = "failed"]
                   /\ UNCHANGED fetch
              ELSE IF MaShifted(thresholds'[w].ma_value, CachedMaPrice(w),
                                watch.n_points)
              THEN /\ StartFetchHeld("hourly", w, thresholds'[w].ma_value,
                                     watch)
                   /\ hourly' = [pc |-> "chain", w |-> w]
                   /\ last_hourly' = [last_hourly EXCEPT ![w] = "reselect"]
              ELSE /\ hourly' = HourlyIdle
                   /\ last_hourly' = [last_hourly EXCEPT ![w] = "keep"]
                   /\ UNCHANGED fetch
    /\ UNCHANGED <<daily_bars, tradeVars, notifyVars, options_cache,
                   init_task, chain_strikes, request, otm, expiryVars,
                   entryVars, tickVars, configVars, executorVars, loopVars,
                   sizeVars, historyVars, deleteVars>>

\* delete_watch from the return of unsubscribe_price (or from its start,
\* when the engine is not running) to its end
DeleteFinish(w) ==
    /\ options_cache' = [options_cache EXCEPT ![w] = NoOptions]
    /\ EngineRemoveWatch(w)
    /\ deleter' = DeleterIdle
    /\ deleted' = deleted \cup {w}

\* DELETE /api/watch/{w}: to the await of unsubscribe_price while the
\* engine runs, else to the end
DeleteWatch(w) ==
    /\ deleter.pc = "idle"
    /\ IF running
       THEN /\ deleter' = [pc |-> "unsubscribe", w |-> w]
            /\ UNCHANGED <<engineVars, options_cache, deleted>>
       ELSE DeleteFinish(w)
    /\ UNCHANGED <<daily_bars, tradeVars, notifyVars, fetch, hourly,
                   init_task, last_hourly, chain_strikes, request, otm,
                   expiryVars, entryVars, tickVars, configVars, executorVars,
                   loopVars, sizeVars, historyVars, held>>

\* unsubscribe_price has run: the rest of delete_watch
DeleteUnsubscribed ==
    /\ deleter.pc = "unsubscribe"
    /\ subscriptions' = subscriptions \ {deleter.w}
    /\ DeleteFinish(deleter.w)
    /\ UNCHANGED <<daily_bars, tradeVars, notifyVars, fetch, hourly,
                   init_task, last_hourly, chain_strikes, request, otm,
                   expiryVars, entryVars, tickVars, configVars, executorVars,
                   sizeVars, historyVars, held, running, monitor_task, loops,
                   stopper, starter, gateway_up, stopped>>

InitDelete ==
    /\ deleter = DeleterIdle
    /\ deleted = {}
    /\ held = [c \in Callers |-> NoWatch]

\* no trade yet, no request in progress
InitTrades ==
    /\ active_trades = [t \in TradeIds |-> NoTrade]
    /\ close_orders = [t \in TradeIds |-> <<>>]
    /\ mon = MonIdle
    /\ closer = [t \in TradeIds |-> CloserIdle]
    /\ placer = [t \in TradeIds |-> 0]
    /\ fired = [t \in TradeIds |-> {}]

\* no option set cached yet, nothing in progress
InitOptions ==
    /\ options_cache = [w \in WatchIds |-> NoOptions]
    /\ fetch = [c \in Callers |-> NoFetch]
    /\ hourly = HourlyIdle
    /\ init_task = InitIdle
    /\ last_hourly = [w \in WatchIds |-> "none"]
    /\ chain_strikes = 1..MaxStrike
    /\ request = NoRequest
    /\ otm = NoneV

Init ==
    /\ watch_list \in [WatchIds -> Watches]
    /\ thresholds = [w \in WatchIds |-> NoCache]
    /\ signals = <<>>
    /\ latest_data = [w \in WatchIds |-> NoData]
    /\ gen_signals = [w \in WatchIds |-> 0]
    /\ candles = [w \in WatchIds |-> <<>>]
    /\ daily_bars \in [WatchIds -> BarSeries]
    /\ InitTrades
    /\ InitOptions
    /\ InitNotify
    /\ InitExpiry
    /\ InitEntry
    /\ InitDelete
    /\ InitHistory
    /\ InitSizing
    /\ InitLoops
    /\ InitExecutor
    /\ InitConfig
    /\ InitTick

\* the engine under its callers, with no trade
Next ==
    \/ \E w \in WatchIds : CalculateThresholds(w) /\ UNCHANGED otherVars
    \/ \E w \in WatchIds, price \in Prices :
           CheckPrice(w, price) /\ UNCHANGED otherVars
    \/ \E w \in WatchIds, u \in Updates :
           EngineUpdateWatch(w, u[1], u[2]) /\ UNCHANGED otherVars
    \/ \E w \in WatchIds : EngineRemoveWatch(w) /\ UNCHANGED otherVars
    \/ ClearSignals /\ UNCHANGED otherVars

Spec == Init /\ [][Next]_vars

(***************************************************************************)
(* SpecExit: the monitor's ticks with their exit monitoring, place_order   *)
(* and close_trade, over a LONG watch without confirmation.                *)
(***************************************************************************)
ExitWatches ==
    {wt \in Watches : /\ wt.enabled /\ ~wt.confirm_ma_enabled
                      /\ wt.direction = "LONG" /\ wt.strategy_type = "BB"}

\* bars with a flat close
ExitBars == {b \in BarSeries : Len(b) = 3 /\ b[1] = b[2] /\ b[2] = b[3]}

\* the exit settings of the requests: the time rule at the last clock
\* reading, the MA rule above the line, the BB rule at the middle band
ExitChoices ==
    {e \in ExitConfigs :
        /\ e.time.enabled => e.time.value # 0
        /\ e.ma.enabled => e.ma.cond = "above"
        /\ e.bb.enabled => e.bb.target = "middle"}

InitExit ==
    /\ watch_list \in [WatchIds -> ExitWatches]
    /\ thresholds = [w \in WatchIds |-> NoCache]
    /\ signals = <<>>
    /\ latest_data = [w \in WatchIds |-> NoData]
    /\ gen_signals = [w \in WatchIds |-> 0]
    /\ candles = [w \in WatchIds |-> <<>>]
    /\ daily_bars \in [WatchIds -> ExitBars]
    /\ InitTrades
    /\ InitOptions
    /\ InitNotify
    /\ InitExpiry
    /\ InitEntry
    /\ InitDelete
    /\ InitHistory
    /\ InitSizing
    /\ InitLoops
    /\ InitExecutor
    /\ InitConfig
    /\ InitTick

NextExit ==
    \/ \E w \in WatchIds : CalculateThresholds(w) /\ UNCHANGED otherVars
    \/ \E w \in WatchIds, price \in 0..MaxPrice, now \in Clock :
           MonitorTick(w, price, now)
    \/ \E ok \in BOOLEAN : MonitorOrder(ok)
    \/ \E now \in Clock : MonitorResume(now)
    \/ \E t \in TradeIds, w \in WatchIds, exit \in ExitChoices, legs \in EntryLegs :
           PlaceOrder(t, w, exit, legs)
    \/ \E t \in TradeIds, filled \in BOOLEAN : PlaceLimit(t, filled)
    \/ \E t \in TradeIds : CloseTrade(t)
    \/ \E t \in TradeIds, ok \in BOOLEAN : CloseCancel(t, ok)
    \/ \E t \in TradeIds, ok \in BOOLEAN : CloseOrder(t, ok)

SpecExit == InitExit /\ [][NextExit]_vars

(***************************************************************************)
(* SpecTimeExit: the monitor's ticks and close_trade over trades whose     *)
(* time exit is enabled, at any exit time, and that place no limit exit.   *)
(***************************************************************************)
TimeExitChoices ==
    {[e EXCEPT !.time = [enabled |-> TRUE, value |-> v]] :
        e \in {c \in ExitChoices : ~c.limit}, v \in Clock}

\* the entry results of the requests: one or two legs
TimeExitLegs == {legs \in EntryLegs : Len(legs) <= 2}

\* the ticks: none, one below the MA rule's target of 2 and one above it
TimeExitTicks == {0, 1, 3}

InitTimeExit ==
    /\ watch_list \in [WatchIds -> ExitWatches]
    /\ thresholds = [w \in WatchIds |-> NoCache]
    /\ signals = <<>>
    /\ latest_data = [w \in WatchIds |-> NoData]
    /\ gen_signals = [w \in WatchIds |-> 0]
    /\ candles = [w \in WatchIds |-> <<>>]
    /\ daily_bars = [w \in WatchIds |-> <<1, 1, 1>>]
    /\ InitTrades
    /\ InitOptions
    /\ InitNotify
    /\ InitExpiry
    /\ InitEntry
    /\ InitDelete
    /\ InitHistory
    /\ InitSizing
    /\ InitLoops
    /\ InitExecutor
    /\ InitConfig
    /\ InitTick

NextTimeExit ==
    \/ \E w \in WatchIds : CalculateThresholds(w) /\ UNCHANGED otherVars
    \/ \E w \in WatchIds, price \in TimeExitTicks, now \in Clock :
           MonitorTick(w, price, now)
    \/ \E ok \in BOOLEAN : MonitorOrder(ok)
    \/ \E now \in Clock : MonitorResume(now)
    \/ \E t \in TradeIds, w \in WatchIds, exit \in TimeExitChoices,
            legs \in TimeExitLegs :
           PlaceOrder(t, w, exit, legs)
    \/ \E t \in TradeIds : CloseTrade(t)
    \/ \E t \in TradeIds, ok \in BOOLEAN : CloseOrder(t, ok)

SpecTimeExit == InitTimeExit /\ [][NextTimeExit]_vars

(***************************************************************************)
(* SpecEntry: place_order with the answers of the gateway to its entry     *)
(* orders, then the limit exit placement and close_trade.                  *)
(***************************************************************************)
\* req.items: whether each item is valid
EntryItems == UNION {[1..n -> BOOLEAN] : n \in 1..MaxLegs}

EntryAnswers == {"placed", "error", "raised"}

NextEntry ==
    \/ \E t \in TradeIds, w \in WatchIds, exit \in ExitChoices,
            items \in EntryItems :
           PlaceOrderCall(t, w, exit, items)
    \/ \E answer \in EntryAnswers : PlaceOrderAnswer(answer)
    \/ \E t \in TradeIds, filled \in BOOLEAN : PlaceLimit(t, filled)
    \/ \E t \in TradeIds : CloseTrade(t)
    \/ \E t \in TradeIds, ok \in BOOLEAN : CloseCancel(t, ok)
    \/ \E t \in TradeIds, ok \in BOOLEAN : CloseOrder(t, ok)

SpecEntry == InitExit /\ [][NextEntry]_vars

(***************************************************************************)
(* SpecTick: the passes of the monitor's loop whatever part of their work  *)
(* raises.                                                                 *)
(***************************************************************************)
InitTickSpec ==
    /\ watch_list \in [WatchIds -> ExitWatches]
    /\ thresholds = [w \in WatchIds |-> NoCache]
    /\ signals = <<>>
    /\ latest_data = [w \in WatchIds |-> NoData]
    /\ gen_signals = [w \in WatchIds |-> 0]
    /\ candles = [w \in WatchIds |-> <<>>]
    /\ daily_bars = [w \in WatchIds |-> <<>>]
    /\ InitTrades
    /\ InitOptions
    /\ InitNotify
    /\ InitExpiry
    /\ InitEntry
    /\ InitDelete
    /\ InitHistory
    /\ InitSizing
    /\ InitLoops
    /\ InitExecutor
    /\ InitConfig
    /\ tick = TickSleep
    /\ processed = {}
    /\ raising \in SUBSET TickItems

NextTick ==
    \/ \E due \in BOOLEAN : TickBegin(due)
    \/ TickProcess

SpecTick == InitTickSpec /\ [][NextTick]_vars

(***************************************************************************)
(* SpecExecutor: the gateway executor under any interleaving of its        *)
(* submitting coroutines.                                                  *)
(***************************************************************************)
NextExecutor ==
    \/ \E caller \in IbCallers : IbSubmit(caller)
    \/ \E k \in IbWorkers : IbTake(k)
    \/ \E k \in IbWorkers : IbFinish(k)

SpecExecutor == InitTimeExit /\ [][NextExecutor]_vars

(***************************************************************************)
(* SpecReconnect: one monitor loop, started and stopped, over a gateway    *)
(* that goes down and comes back.  The event loop resumes every task that  *)
(* can go on, the executor runs every operation submitted: weak fairness   *)
(* of the steps of the tasks.                                              *)
(***************************************************************************)
\* the closing orders of the exit rule that fires in a pass: none, or one
\* for each leg of the trade
PassLegs == 0..MaxLegs

StepLoop(l) ==
    \E conn \in BOOLEAN, ok \in BOOLEAN, legs \in PassLegs :
        LoopStep(l, conn, ok, legs)

CancelLoop(l) == \E effect \in BOOLEAN : LoopCancelled(l, effect)

NextReconnect ==
    \/ StartMonitoring /\ loops[1].pc = "none"
    \/ StopMonitoring
    \/ StopUnsubscribed
    \/ StepLoop(1)
    \/ CancelLoop(1)
    \/ GatewayFlip

SpecReconnect ==
    /\ InitTimeExit
    /\ [][NextReconnect]_vars
    /\ WF_vars(StepLoop(1))
    /\ WF_vars(CancelLoop(1))
    /\ WF_vars(StopUnsubscribed)

(***************************************************************************)
(* SpecLifecycle: every interleaving of start and stop requests, of the    *)
(* monitor loops they create and cancel, and of one _init_new_watch task.  *)
(***************************************************************************)
NextLifecycle ==
    \/ StartMonitoring
    \/ StopMonitoring
    \/ StopUnsubscribed
    \/ \E l \in LoopIds : StepLoop(l)
    \/ \E l \in LoopIds : CancelLoop(l)
    \/ StartInit
    \/ \E enough \in BOOLEAN : InitStep(enough)

SpecLifecycle == InitTimeExit /\ [][NextLifecycle]_vars

(***************************************************************************)
(* SpecSizing: place_order sizing one leg, for every amount, ask price     *)
(* (in hundredths) and multiplier of the option cache.                     *)
(***************************************************************************)
Amounts == 0..MaxAmount

Asks == 1..MaxAsk

Multipliers == {50, 100}

InitSizingSpec ==
    /\ watch_list \in [WatchIds -> ExitWatches]
    /\ thresholds = [w \in WatchIds |-> NoCache]
    /\ signals = <<>>
    /\ latest_data = [w \in WatchIds |-> NoData]
    /\ gen_signals = [w \in WatchIds |-> 0]
    /\ candles = [w \in WatchIds |-> <<>>]
    /\ daily_bars = [w \in WatchIds |-> <<1, 1, 1>>]
    /\ InitTrades
    /\ InitOptions
    /\ InitNotify
    /\ InitExpiry
    /\ InitEntry
    /\ InitDelete
    /\ InitHistory
    /\ InitLoops
    /\ InitExecutor
    /\ InitConfig
    /\ InitTick
    /\ sizing \in {[NoSizing EXCEPT !.amount = a, !.ask = k,
                                    !.multiplier = mu] :
                      a \in Amounts, k \in Asks, mu \in Multipliers}

NextSizing == SizeLeg

SpecSizing == InitSizingSpec /\ [][NextSizing]_vars

(***************************************************************************)
(* SpecHistory: Signals are emitted, the history is read with any limit    *)
(* and cleared.                                                            *)
(***************************************************************************)
\* the Signals emitted: BUY or SELL at one of two prices
HistorySignals ==
    {[present |-> TRUE, watch_id |-> "w1", signal_type |-> st, price |-> pr,
      ma_value |-> 1, ma_period |-> 2, n_points |-> 1, distance |-> 0] :
        st \in {"BUY", "SELL"}, pr \in 1..2}

Limits == 0..(MaxHistory + 1)

NextHistory ==
    \/ \E sig \in HistorySignals : AppendSignal(sig)
    \/ \E limit \in Limits : GetSignalsCall(limit)
    \/ ClearSignalsCall

SpecHistory == InitTimeExit /\ [][NextHistory]_vars

(***************************************************************************)
(* SpecStopExit: trades with a time exit, the monitor started and stopped  *)
(* while it ticks and closes them, and close_trade.  Every task that can   *)
(* go on is resumed, the gateway answers every order, the monitor is       *)
(* started again after a stop and keeps ticking: weak fairness of each.    *)
(***************************************************************************)
StopExits ==
    {e \in TimeExitChoices : ~e.ma.enabled /\ ~e.bb.enabled /\ e.time.value = 1}

StopLegs == {legs \in EntryLegs : \A i \in 1..Len(legs) : legs[i]}

LoopTick ==
    /\ running /\ monitor_task = 1
    /\ \E w \in WatchIds, price \in {0, 1}, now \in Clock :
           MonitorTick(w, price, now)

LoopOrder == monitor_task = 1 /\ \E ok \in BOOLEAN : MonitorOrder(ok)

LoopResume == monitor_task = 1 /\ \E now \in Clock : MonitorResume(now)

LoopCancel == \E effect \in BOOLEAN : MonitorCancelled(effect)

CloserOrder == \E t \in TradeIds, ok \in BOOLEAN : CloseOrder(t, ok)

NextStopExit ==
    \/ StartExitMonitor
    \/ StopMonitoring
    \/ StopUnsubscribed
    \/ LoopTick
    \/ LoopOrder
    \/ LoopResume
    \/ LoopCancel
    \/ \E t \in TradeIds, w \in WatchIds, exit \in StopExits,
            legs \in StopLegs :
           PlaceOrder(t, w, exit, legs)
    \/ \E t \in TradeIds : CloseTrade(t)
    \/ CloserOrder

SpecStopExit ==
    /\ InitTimeExit
    /\ [][NextStopExit]_vars
    /\ WF_vars(StartExitMonitor)
    /\ WF_vars(StopUnsubscribed)
    /\ WF_vars(LoopTick)
    /\ WF_vars(LoopOrder)
    /\ WF_vars(LoopResume)
    /\ WF_vars(LoopCancel)
    /\ WF_vars(CloserOrder)

(***************************************************************************)
(* SpecDelete: a watch is added or found in the configuration, the monitor *)
(* is started, _init_new_watch and the hourly recalculation run for the    *)
(* watch, and delete_watch removes it at any moment.                       *)
(***************************************************************************)
InitDeleteSpec ==
    /\ watch_list \in [WatchIds -> ExitWatches \cup {NoWatch}]
    /\ thresholds = [w \in WatchIds |-> NoCache]
    /\ signals = <<>>
    /\ latest_data = [w \in WatchIds |-> NoData]
    /\ gen_signals = [w \in WatchIds |-> 0]
    /\ candles = [w \in WatchIds |-> <<>>]
    /\ daily_bars = [w \in WatchIds |-> <<1, 1, 1>>]
    /\ InitTrades
    /\ InitOptions
    /\ InitNotify
    /\ InitExpiry
    /\ InitEntry
    /\ InitDelete
    /\ InitHistory
    /\ InitSizing
    /\ InitLoops
    /\ InitExecutor
    /\ InitConfig
    /\ InitTick

NextDelete ==
    \/ StartExitMonitor
    \/ \E w \in WatchIds, watch \in ExitWatches : AddWatch(w, watch)
    \/ InitHeldBars
    \/ InitHeldSubscribed
    \/ \E w \in WatchIds : HourlyHeldStart(w)
    \/ HourlyHeldBars
    \/ \E c \in Callers, answer \in {"ok", "empty", "raise"} :
           FetchDone(c, answer)
    \/ \E w \in WatchIds : DeleteWatch(w)
    \/ DeleteUnsubscribed

SpecDelete == InitDeleteSpec /\ [][NextDelete]_vars

(***************************************************************************)
(* SpecBandExit: the monitor's ticks over trades whose band exit is        *)
(* enabled, on a watch of either strategy and either direction.            *)
(***************************************************************************)
BandWatches == {wt \in Watches : wt.enabled /\ ~wt.confirm_ma_enabled}

BandBars == {<<1, 1, 1>>, <<1, 3, 2>>}

BandExitChoices ==
    {e \in ExitChoices : /\ e.bb.enabled /\ ~e.ma.enabled
                         /\ ~e.time.enabled /\ ~e.limit}

BandTicks == {0, 1, 3}

InitBandExit ==
    /\ watch_list \in [WatchIds -> BandWatches]
    /\ thresholds = [w \in WatchIds |-> NoCache]
    /\ signals = <<>>
    /\ latest_data = [w \in WatchIds |-> NoData]
    /\ gen_signals = [w \in WatchIds |-> 0]
    /\ candles = [w \in WatchIds |-> <<>>]
    /\ daily_bars \in [WatchIds -> BandBars]
    /\ InitTrades
    /\ InitOptions
    /\ InitNotify
    /\ InitExpiry
    /\ InitEntry
    /\ InitDelete
    /\ InitHistory
    /\ InitSizing
    /\ InitLoops
    /\ InitExecutor
    /\ InitConfig
    /\ InitTick

NextBandExit ==
    \/ \E w \in WatchIds : CalculateThresholds(w) /\ UNCHANGED otherVars
    \/ \E w \in WatchIds, price \in BandTicks, now \in Clock :
           MonitorTick(w, price, now)
    \/ \E ok \in BOOLEAN : MonitorOrder(ok)
    \/ \E now \in Clock : MonitorResume(now)
    \/ \E t \in TradeIds, w \in WatchIds, exit \in BandExitChoices :
           PlaceOrder(t, w, exit, <<TRUE>>)

SpecBandExit == InitBandExit /\ [][NextBandExit]_vars

(***************************************************************************)
(* SpecConfig: load_config applied to any persisted list.                  *)
(***************************************************************************)
ConfigFiles == UNION {[1..n -> EntryKinds] : n \in 0..MaxEntries}

InitConfigSpec ==
    /\ watch_list \in [WatchIds -> ExitWatches]
    /\ thresholds = [w \in WatchIds |-> NoCache]
    /\ signals = <<>>
    /\ latest_data = [w \in WatchIds |-> NoData]
    /\ gen_signals = [w \in WatchIds |-> 0]
    /\ candles = [w \in WatchIds |-> <<>>]
    /\ daily_bars = [w \in WatchIds |-> <<>>]
    /\ InitTrades
    /\ InitOptions
    /\ InitNotify
    /\ InitExpiry
    /\ InitEntry
    /\ InitDelete
    /\ InitHistory
    /\ InitSizing
    /\ InitLoops
    /\ InitExecutor
    /\ InitTick
    /\ config_file \in ConfigFiles
    /\ loaded = NoneV

NextConfig == LoadConfig

SpecConfig == InitConfigSpec /\ [][NextConfig]_vars

(***************************************************************************)
(* SpecOptions: the hourly recalculation, update_watch with the task it    *)
(* starts and the option cache, over an MA watch whose history moves.      *)
(***************************************************************************)
OptionWatches ==
    [present : {TRUE}, enabled : BOOLEAN, direction : Directions,
     ma_period : {2}, n_points : NPoints, strategy_type : {"MA"},
     bb_std_dev : {2}, confirm_ma_enabled : {FALSE}, confirm_ma_period : {2}]

\* histories that start at the lowest price, and one too short
OptionBars ==
    {b \in BarSeries : b[1] = 1 /\ b[2] = 1}

OptionUpdates ==
    {<<"enabled", v>> : v \in BOOLEAN} \cup {<<"direction", v>> : v \in Directions}

InitOptionsSpec ==
    /\ watch_list \in [WatchIds -> OptionWatches]
    /\ thresholds = [w \in WatchIds |-> NoCache]
    /\ signals = <<>>
    /\ latest_data = [w \in WatchIds |-> NoData]
    /\ gen_signals = [w \in WatchIds |-> 0]
    /\ candles = [w \in WatchIds |-> <<>>]
    /\ daily_bars \in [WatchIds -> OptionBars]
    /\ InitTrades
    /\ InitOptions
    /\ InitNotify
    /\ InitExpiry
    /\ InitEntry
    /\ InitDelete
    /\ InitHistory
    /\ InitSizing
    /\ InitLoops
    /\ InitExecutor
    /\ InitConfig
    /\ InitTick

NextOptions ==
    \/ \E w \in WatchIds : HourlyStart(w)
    \/ HourlyBars
    \/ \E c \in Callers, answer \in {"ok", "empty", "raise"} : FetchDone(c, answer)
    \/ \E w \in WatchIds, u \in OptionUpdates : UpdateWatch(w, u[1], u[2])
    \/ InitBars
    \/ InitSubscribed
    \/ \E w \in WatchIds, b \in OptionBars : NewBars(w, b)

SpecOptions == InitOptionsSpec /\ [][NextOptions]_vars

(***************************************************************************)
(* SpecSelect: the strike selection applied to any listing, reference      *)
(* price, right and count.                                                 *)
(***************************************************************************)
Rights == {"C", "P"}

StrikeCounts == {2, NumStrikes}

InitSelect ==
    /\ watch_list \in [WatchIds -> ExitWatches]
    /\ thresholds = [w \in WatchIds |-> NoCache]
    /\ signals = <<>>
    /\ latest_data = [w \in WatchIds |-> NoData]
    /\ gen_signals = [w \in WatchIds |-> 0]
    /\ candles = [w \in WatchIds |-> <<>>]
    /\ daily_bars = [w \in WatchIds |-> <<>>]
    /\ InitTrades
    /\ options_cache = [w \in WatchIds |-> NoOptions]
    /\ fetch = [c \in Callers |-> NoFetch]
    /\ hourly = HourlyIdle
    /\ init_task = InitIdle
    /\ last_hourly = [w \in WatchIds |-> "none"]
    /\ chain_strikes \in SUBSET (1..MaxListed)
    /\ request = NoRequest
    /\ otm = NoneV
    /\ InitNotify
    /\ InitExpiry
    /\ InitEntry
    /\ InitDelete
    /\ InitHistory
    /\ InitSizing
    /\ InitLoops
    /\ InitExecutor
    /\ InitConfig
    /\ InitTick

\* _sync_get_option_contracts is called
SelectCall(ma_price, right, num_strikes) ==
    /\ ~request.present
    /\ request' = [present |-> TRUE, ma_price |-> ma_price, right |-> right,
                   num_strikes |-> num_strikes]
    /\ UNCHANGED <<engineVars, daily_bars, tradeVars, notifyVars, options_cache, fetch,
                   hourly, init_task, last_hourly, chain_strikes, otm,
                   expiryVars,
                   entryVars,
                   tickVars,
                   configVars,
                   executorVars,
                   loopVars,
                   sizeVars,
                   historyVars,
                   deleteVars>>

\* and selects its strikes
SelectStrikes ==
    /\ request.present /\ otm = NoneV
    /\ otm' = Some(OtmStrikes(chain_strikes, request.ma_price, request.right,
                              request.num_strikes))
    /\ UNCHANGED <<engineVars, daily_bars, tradeVars, notifyVars, options_cache, fetch,
                   hourly, init_task, last_hourly, chain_strikes, request,
                   expiryVars,
                   entryVars,
                   tickVars,
                   configVars,
                   executorVars,
                   loopVars,
                   sizeVars,
                   historyVars,
                   deleteVars>>

NextSelect ==
    \/ \E ma_price \in 0..(MaxListed + 1), right \in Rights, n \in StrikeCounts :
           SelectCall(ma_price, right, n)
    \/ SelectStrikes

SpecSelect == InitSelect /\ [][NextSelect]_vars

(***************************************************************************)
(* SpecNotify: the price loop beside update_watch, the task it starts and  *)
(* clear_signals, over an MA watch that is paused when monitoring starts.  *)
(***************************************************************************)
NotifyWatches == {wt \in OptionWatches : ~wt.enabled /\ wt.n_points = 1}

\* histories whose last close falls, stays or rises
NotifyBars == {b \in BarSeries : Len(b) = 3 /\ b[1] = 2 /\ b[2] = 2}

InitNotifySpec ==
    /\ watch_list \in [WatchIds -> NotifyWatches]
    /\ thresholds = [w \in WatchIds |-> NoCache]
    /\ signals = <<>>
    /\ latest_data = [w \in WatchIds |-> NoData]
    /\ gen_signals = [w \in WatchIds |-> 0]
    /\ candles = [w \in WatchIds |-> <<>>]
    /\ daily_bars \in [WatchIds -> NotifyBars]
    /\ InitTrades
    /\ InitOptions
    /\ InitNotify
    /\ InitExpiry
    /\ InitEntry
    /\ InitDelete
    /\ InitHistory
    /\ InitSizing
    /\ InitLoops
    /\ InitExecutor
    /\ InitConfig
    /\ InitTick

NextNotify ==
    \/ \E w \in WatchIds, price \in Prices : PriceTick(w, price)
    \/ NotifyData
    \/ \E side \in {"call_raw", "put_raw"} : NotifyRefreshed(side)
    \/ NotifyData2
    \/ NotifySignal
    \/ \E w \in WatchIds, u \in OptionUpdates : UpdateWatch(w, u[1], u[2])
    \/ InitBars
    \/ InitSubscribed
    \/ \E answer \in {"ok", "empty", "raise"} : FetchDone("init", answer)
    \/ ClearSignals /\ UNCHANGED otherVars

SpecNotify == InitNotifySpec /\ [][NextNotify]_vars

(***************************************************************************)
(* SpecScenario: the engine over the watch of Scenario A, an MA(21) LONG   *)
(* watch with n_points 5 whose baseline rises from 99.0 to 100.0.  Here    *)
(* the unit of closes, ticks and n_points is a tenth of a point.           *)
(***************************************************************************)
ScenarioWatches ==
    [present : {TRUE}, enabled : {TRUE}, direction : {"LONG"},
     ma_period : {21}, n_points : {50}, strategy_type : {"MA"},
     bb_std_dev : {2}, confirm_ma_enabled : {FALSE}, confirm_ma_period : {2}]

\* a history of 22 closes: c1, c2, 19 equal closes, c22
ScenarioSeries(c1, c2, mid, c22) ==
    <<c1, c2>> \o [i \in 1..19 |-> mid] \o <<c22>>

\* the histories of that form whose MA(21) was 99.0 and is 100.0, by the
\* close that leaves the live window
ScenarioBars ==
    {b \in {ScenarioSeries(c1, c2, mid, c1 + 210) :
                c1 \in 960..980, c2 \in {900, 1000, 1012, 1100}, mid \in 990..1000} :
        /\ SumSeq(SubSeq(b, 1, 21)) = 990 * 21
        /\ SumSeq(SubSeq(b, 2, 22)) = 1000 * 21}

\* the ticks of Scenarios A and B: 98.0, 100.5, 101.2, 102.0
ScenarioTicks == {980, 1005, 1012, 1020}

InitScenario ==
    /\ watch_list \in [WatchIds -> ScenarioWatches]
    /\ thresholds = [w \in WatchIds |-> NoCache]
    /\ signals = <<>>
    /\ latest_data = [w \in WatchIds |-> NoData]
    /\ gen_signals = [w \in WatchIds |-> 0]
    /\ candles = [w \in WatchIds |-> <<>>]
    /\ daily_bars \in [WatchIds -> ScenarioBars]
    /\ InitTrades
    /\ InitOptions
    /\ InitNotify
    /\ InitExpiry
    /\ InitEntry
    /\ InitDelete
    /\ InitHistory
    /\ InitSizing
    /\ InitLoops
    /\ InitExecutor
    /\ InitConfig
    /\ InitTick

NextScenario ==
    \/ \E w \in WatchIds : CalculateThresholds(w) /\ UNCHANGED otherVars
    \/ \E w \in WatchIds, price \in ScenarioTicks :
           CheckPrice(w, price) /\ UNCHANGED otherVars
    \/ ClearSignals /\ UNCHANGED otherVars

SpecScenario == InitScenario /\ [][NextScenario]_vars

(***************************************************************************)
(* SpecRecalc: the hourly recalculation between the ticks of a LONG watch  *)
(* whose history may come back changed, too short or not at all.           *)
(***************************************************************************)
RecalcWatches ==
    {wt \in Watches : wt.enabled /\ ~wt.confirm_ma_enabled /\ wt.direction = "LONG"}

\* no history (the empty series), one too short, and rising ones
RecalcBars == {<<>>, <<1, 1>>, <<1, 1, 2>>, <<1, 2, 3>>}

RecalcUpdates == {<<"enabled", v>> : v \in BOOLEAN}

InitRecalc ==
    /\ watch_list \in [WatchIds -> RecalcWatches]
    /\ thresholds = [w \in WatchIds |-> NoCache]
    /\ signals = <<>>
    /\ latest_data = [w \in WatchIds |-> NoData]
    /\ gen_signals = [w \in WatchIds |-> 0]
    /\ candles = [w \in WatchIds |-> <<>>]
    /\ daily_bars \in [WatchIds -> RecalcBars]
    /\ InitTrades
    /\ InitOptions
    /\ InitNotify
    /\ InitExpiry
    /\ InitEntry
    /\ InitDelete
    /\ InitHistory
    /\ InitSizing
    /\ InitLoops
    /\ InitExecutor
    /\ InitConfig
    /\ InitTick

\* the monitor's ticks come between its hourly recalculations
NextRecalc ==
    \/ \E w \in WatchIds : HourlyStart(w)
    \/ HourlyBars
    \/ \E c \in Callers, answer \in {"ok", "empty", "raise"} : FetchDone(c, answer)
    \/ \E w \in WatchIds, price \in Prices :
           hourly.pc = "idle" /\ CheckPrice(w, price) /\ UNCHANGED otherVars
    \/ \E w \in WatchIds, u \in RecalcUpdates : UpdateWatch(w, u[1], u[2])
    \/ InitBars
    \/ InitSubscribed
    \/ \E w \in WatchIds, b \in RecalcBars : NewBars(w, b)
    \/ ClearSignals /\ UNCHANGED otherVars

SpecRecalc == InitRecalc /\ [][NextRecalc]_vars

(***************************************************************************)
(* SpecScenarioC: the engine over the watch of Scenario C, a BB LONG watch *)
(* with n_points 2 whose live lower band is 95.0 at the tick 96.5, with    *)
(* and without confirmation.  The unit is half a point.                    *)
(***************************************************************************)
ScenarioCWatches ==
    [present : {TRUE}, enabled : {TRUE}, direction : {"LONG"},
     ma_period : {2}, n_points : {4}, strategy_type : {"BB"},
     bb_std_dev : {2}, confirm_ma_enabled : BOOLEAN, confirm_ma_period : {3}]

\* histories that end 93.5, 99.5: the middle band is 96.5, and the window
\* (99.5, 96.5) of the tick has mean 98.0, deviation 1.5, lower band 95.0.
\* The close before them decides the confirmation direction of the tick.
ScenarioCBars == {<<c1, c2, 187, 199>> : c1 \in {180, 200}, c2 \in {180, 193, 200}}

\* the ticks 95.0, 96.5 and 100.0
ScenarioCTicks == {190, 193, 200}

ScenarioCUpdates == {<<"confirm_ma_enabled", v>> : v \in BOOLEAN}

InitScenarioC ==
    /\ watch_list \in [WatchIds -> ScenarioCWatches]
    /\ thresholds = [w \in WatchIds |-> NoCache]
    /\ signals = <<>>
    /\ latest_data = [w \in WatchIds |-> NoData]
    /\ gen_signals = [w \in WatchIds |-> 0]
    /\ candles = [w \in WatchIds |-> <<>>]
    /\ daily_bars \in [WatchIds -> ScenarioCBars]
    /\ InitTrades
    /\ InitOptions
    /\ InitNotify
    /\ InitExpiry
    /\ InitEntry
    /\ InitDelete
    /\ InitHistory
    /\ InitSizing
    /\ InitLoops
    /\ InitExecutor
    /\ InitConfig
    /\ InitTick

NextScenarioC ==
    \/ \E w \in WatchIds : CalculateThresholds(w) /\ UNCHANGED otherVars
    \/ \E w \in WatchIds, price \in ScenarioCTicks :
           CheckPrice(w, price) /\ UNCHANGED otherVars
    \/ \E w \in WatchIds, u \in ScenarioCUpdates :
           EngineUpdateWatch(w, u[1], u[2]) /\ UNCHANGED otherVars
    \/ ClearSignals /\ UNCHANGED otherVars

SpecScenarioC == InitScenarioC /\ [][NextScenarioC]_vars

(***************************************************************************)
(* SpecExpiry: the expiration selection applied, at any moment of the      *)
(* wall clock, to any listing of one or two chains.                        *)
(***************************************************************************)
Exchanges == {"SMART", "CME"}

SecTypes == {"FUT", "STK"}

ExpirationCounts == {1, 2, 3}

Chains == [exchange : Exchanges, expirations : SUBSET (1..MaxDay)]

ChainLists == {<<c>> : c \in Chains}
                  \cup {<<c, d>> : c \in Chains, d \in Chains}

Datetimes == [day : 1..MaxDay, time : 0..MaxTime]

InitExpirySpec ==
    /\ watch_list \in [WatchIds -> ExitWatches]
    /\ thresholds = [w \in WatchIds |-> NoCache]
    /\ signals = <<>>
    /\ latest_data = [w \in WatchIds |-> NoData]
    /\ gen_signals = [w \in WatchIds |-> 0]
    /\ candles = [w \in WatchIds |-> <<>>]
    /\ daily_bars = [w \in WatchIds |-> <<>>]
    /\ InitTrades
    /\ InitOptions
    /\ InitNotify
    /\ chains \in ChainLists
    /\ clock \in Datetimes
    /\ sorted_exps = NoSelection
    /\ InitEntry
    /\ InitDelete
    /\ InitHistory
    /\ InitSizing
    /\ InitLoops
    /\ InitExecutor
    /\ InitConfig
    /\ InitTick

\* the wall clock moves on: later the same day, or to the next midnight
ClockAdvance ==
    /\ clock' \in {d \in Datetimes :
                     \/ d.day = clock.day /\ d.time = clock.time + 1
                     \/ d.day = clock.day + 1 /\ d.time = 0}
    /\ UNCHANGED <<engineVars, daily_bars, tradeVars, optionVars, notifyVars,
                   chains, sorted_exps,
                   entryVars,
                   tickVars,
                   configVars,
                   executorVars,
                   loopVars,
                   sizeVars,
                   historyVars,
                   deleteVars>>

NextExpiry ==
    \/ \E sec_type \in SecTypes, n \in ExpirationCounts :
           GetOptionContracts(sec_type, n)
    \/ ClockAdvance

SpecExpiry == InitExpirySpec /\ [][NextExpiry]_vars

(***************************************************************************)
(* Claims on the signal engine, checked under Spec.                        *)
(***************************************************************************)
\* the Signal a step appends, if it appends one
Emits(w) ==
    /\ Len(signals') = Len(signals) + 1
    /\ signals'[Len(signals')].watch_id = w

\* C1: in every baseline generation of a watch (from one successful
\* calculate_thresholds to the next) check_price appends at most one Signal.
C1_OneShotLatch == \A w \in WatchIds : gen_signals[w] <= 1

\* C1 witness: the watch is latched by a Signal and a later tick at another
\* price, which meets every other firing condition, has been processed.
C1_Witness ==
    \E w \in WatchIds :
        /\ thresholds[w].present /\ watch_list[w].present
        /\ thresholds[w].signal_fired
        /\ gen_signals[w] = 1
        /\ signals # <<>> /\ signals[1].watch_id = w
        /\ signals[1].price # thresholds[w].last_price
        /\ thresholds[w].qualified
        /\ FiresAnyDirection([thresholds[w] EXCEPT !.signal_fired = FALSE],
                             watch_list[w], thresholds[w].last_price)
        /\ DirectionFilter(watch_list[w],
               LiveSignalType(thresholds[w], watch_list[w], thresholds[w].last_price))

\* C2: qualification is decided on the first tick processed after a
\* calculate_thresholds (LONG: price >= baseline value, SHORT: price <=), it
\* does not change on a later tick of the generation, and a disqualified
\* watch emits no Signal.
C2_QualificationOnce ==
    [][\A w \in WatchIds :
         LET c == thresholds[w]
             d == thresholds'[w]
         IN  /\ (c.present /\ d.present /\ c.last_price # 0 /\ d.last_price # 0)
                    => d.qualified = c.qualified
             /\ (c.present /\ d.present /\ c.last_price = 0 /\ d.last_price # 0)
                    => (d.qualified <=>
                          IF watch_list[w].direction = "LONG"
                          THEN d.last_price * Scale >= c.ma_value
                          ELSE d.last_price * Scale <= c.ma_value)
             /\ (c.present /\ ~c.qualified) => ~Emits(w)
      ]_vars

\* C2 witness: a LONG watch disqualified by its first tick has processed a
\* later tick on the qualifying side that lies in the live trigger zone.
C2_Witness ==
    \E w \in WatchIds :
        /\ thresholds[w].present /\ watch_list[w].present
        /\ ~thresholds[w].qualified
        /\ watch_list[w].direction = "LONG"
        /\ thresholds[w].last_price * Scale >= thresholds[w].ma_value
        /\ Fires(thresholds[w], watch_list[w], thresholds[w].last_price)

\* C3: a Signal is emitted only on a tick where the watch is present and
\* enabled, its baseline exists, implies a signal type and is qualified, the
\* latch was false, the type is BUY for LONG and SELL for SHORT, and the price
\* lies in the live trigger zone (read from the display snapshot of the tick).
C3_SignalPreconditions ==
    [][\A w \in WatchIds :
         Emits(w) =>
           LET sg == signals'[Len(signals')]
               c == thresholds[w]
               wt == watch_list[w]
               d == latest_data'[w]
               n == wt.n_points * Scale
               p == sg.price * Scale
           IN  /\ wt.present /\ wt.enabled
               /\ c.present /\ c.signal_type # "None"
               /\ c.qualified /\ thresholds'[w].qualified
               /\ ~c.signal_fired
               /\ sg.signal_type = IF wt.direction = "LONG" THEN "BUY" ELSE "SELL"
               /\ d.present /\ d.live /\ d.current_price = sg.price
               /\ IF c.strategy_type = "MA"
                  THEN IF sg.signal_type = "BUY"
                       THEN d.ma_value <= p /\ p <= d.ma_value + n
                       ELSE d.ma_value - n <= p /\ p <= d.ma_value
                  ELSE IF sg.signal_type = "BUY"
                       THEN d.bb_lower # NoneV /\ 0 <= p /\ p <= d.bb_lower[1] + n
                       ELSE d.bb_upper # NoneV /\ d.bb_upper[1] - n <= p
      ]_vars

\* C3 witness: a Signal has been emitted and its watch is latched.
C3_Witness ==
    \E w \in WatchIds :
        /\ signals # <<>> /\ signals[1].watch_id = w
        /\ thresholds[w].present /\ thresholds[w].signal_fired
        /\ thresholds[w].last_price = signals[1].price

C12_SnapshotEveryTick ==
    [][\A w \in WatchIds :
         LET c == thresholds[w]
             d == thresholds'[w]
             wt == watch_list[w]
             data == latest_data'[w]
         IN  ( /\ wt.present /\ wt.enabled /\ watch_list' = watch_list
               /\ c.present /\ d.present /\ c.signal_type # "None"
               /\ d.last_price # 0 /\ d.last_price # c.last_price )
                 => /\ data.present /\ data.live
                    /\ data.current_price = d.last_price
                    /\ data.qualified = d.qualified
      ]_vars

\* C13: with confirmation-MA enabled on the watch, a Signal is emitted only
\* on a tick where the confirmation direction was computed from the
\* baseline's confirmation history and is RISING for LONG, FALLING for SHORT.
C13_ConfirmationComputed ==
    [][\A w \in WatchIds :
         (Emits(w) /\ watch_list[w].present /\ watch_list[w].confirm_ma_enabled)
           => /\ thresholds[w].present
              /\ TruthyList(thresholds[w].confirm_hist_closes)
              /\ latest_data'[w].present /\ latest_data'[w].live
              /\ latest_data'[w].confirm_ma_direction =
                     IF watch_list[w].direction = "LONG" THEN "RISING" ELSE "FALLING"
      ]_vars

\* C14: for an enabled, qualified, unlatched watch whose baseline implies a
\* signal type, a tick whose price lies in the live trigger zone, with the
\* live direction matching the watch's direction and confirmation satisfied,
\* emits a Signal on that tick with the distance of the price from the live
\* indicator value; and in Scenario A the first tick 100.5 qualifies the
\* watch without a Signal and the tick 101.2 after it emits the BUY Signal
\* with distance 1.2.
C14_FirstZoneTickFires ==
    [][\A w \in WatchIds :
         LET c == thresholds[w]
             d == thresholds'[w]
             wt == watch_list[w]
             p == d.last_price
             sg == signals'[Len(signals')]
         IN  ( /\ wt.present /\ wt.enabled /\ watch_list' = watch_list
               /\ c.present /\ d.present /\ c.signal_type # "None"
               /\ p # 0 /\ p # c.last_price )
                 => /\ ( /\ QualifiedAfter(c, wt, p) /\ ~c.signal_fired
                         /\ DirectionFilter(wt, LiveSignalType(c, wt, p))
                         /\ LiveConfirmOk(c, wt, p)
                         /\ InZone(c, wt, p) )
                           => /\ Emits(w)
                              /\ sg.distance = Abs(p * Scale - LiveMa(c, p))
                    /\ ( /\ c.ma_value = 1000 * Scale /\ c.prev_ma = 990 * Scale
                         /\ wt.n_points = 50 /\ wt.direction = "LONG" )
                           => /\ (c.last_price = 0 /\ p = 1005)
                                    => d.qualified /\ ~Emits(w)
                              /\ (c.last_price = 1005 /\ p = 1012
                                    /\ c.qualified /\ ~c.signal_fired)
                                    => /\ Emits(w)
                                       /\ sg.signal_type = "BUY"
                                       /\ sg.distance = 12 * Scale
      ]_vars

\* C14 as the code has it: such a tick emits a Signal on that very tick, the
\* first tick of a generation included, and the recorded distance is that of
\* the price from the live indicator value, the mean of the saved closes and
\* the tick.
C14_ZoneTickFires ==
    [][\A w \in WatchIds :
         LET c == thresholds[w]
             d == thresholds'[w]
             wt == watch_list[w]
             p == d.last_price
             sg == signals'[Len(signals')]
         IN  ( /\ wt.present /\ wt.enabled /\ watch_list' = watch_list
               /\ c.present /\ d.present /\ c.signal_type # "None"
               /\ p # 0 /\ p # c.last_price
               /\ QualifiedAfter(c, wt, p) /\ ~c.signal_fired
               /\ DirectionFilter(wt, LiveSignalType(c, wt, p))
               /\ LiveConfirmOk(c, wt, p)
               /\ InZone(c, wt, p) )
                 => /\ Emits(w)
                    /\ sg.price = p
                    /\ sg.distance = Abs(p * Scale - LiveMa(c, p))
      ]_vars

\* C14 witness: the watch of Scenario A is latched by the Signal of the tick
\* 100.5, recorded with its distance from the live value, not from 100.0.
C14_Witness ==
    \E w \in WatchIds :
        /\ thresholds[w].present /\ thresholds[w].signal_fired
        /\ thresholds[w].ma_value = 1000 * Scale
        /\ signals # <<>> /\ signals[1].watch_id = w
        /\ signals[1].price = 1005
        /\ signals[1].distance = Abs(1005 * Scale - signals[1].ma_value)
        /\ signals[1].distance # 5 * Scale

\* C16: an MA-strategy baseline that rises has the zone [MA, MA + N] and
\* implies BUY, one that falls has [MA - N, MA] and implies SELL, a flat one
\* has no zone and implies nothing; a Signal of an MA baseline is a BUY on a
\* rising live indicator with the price in [live MA, live MA + N] or a SELL
\* on a falling one with the price in [live MA - N, live MA]; a flat
\* baseline emits no Signal.
C16_MaZonePolicy ==
    [][\A w \in WatchIds :
         LET c == thresholds[w]
             d == thresholds'[w]
             data == latest_data'[w]
             n == d.n_points * Scale
             sg == signals'[Len(signals')]
             p == sg.price * Scale
         IN  /\ (d.present /\ d.strategy_type = "MA") =>
                    CASE d.ma_value > d.prev_ma ->
                             /\ d.ma_direction = "RISING" /\ d.signal_type = "BUY"
                             /\ d.trigger_low = d.ma_value
                             /\ d.trigger_high = d.ma_value + n
                      [] d.ma_value < d.prev_ma ->
                             /\ d.ma_direction = "FALLING" /\ d.signal_type = "SELL"
                             /\ d.trigger_low = d.ma_value - n
                             /\ d.trigger_high = d.ma_value
                      [] OTHER ->
                             /\ d.ma_direction = "FLAT" /\ d.signal_type = "None"
                             /\ d.trigger_low = 0 /\ d.trigger_high = 0
             /\ (Emits(w) /\ c.present /\ c.strategy_type = "MA") =>
                    /\ c.signal_type # "None" /\ c.ma_value # c.prev_ma
                    /\ data.present /\ data.live
                    /\ \/ /\ sg.signal_type = "BUY" /\ data.ma_direction = "RISING"
                          /\ data.ma_value > c.ma_value
                          /\ data.ma_value <= p /\ p <= data.ma_value + n
                       \/ /\ sg.signal_type = "SELL" /\ data.ma_direction = "FALLING"
                          /\ data.ma_value < c.ma_value
                          /\ data.ma_value - n <= p /\ p <= data.ma_value
             /\ (c.present /\ watch_list[w].present /\ c.signal_type = "None")
                    => ~Emits(w)
      ]_vars

\* C16 witness: calculate_thresholds has stored a flat MA baseline for an
\* enabled watch, from closes that differ.
C16_Witness ==
    \E w \in WatchIds :
        /\ thresholds[w].present /\ thresholds[w].strategy_type = "MA"
        /\ thresholds[w].ma_direction = "FLAT"
        /\ thresholds[w].ma_value = thresholds[w].prev_ma
        /\ watch_list[w].present /\ watch_list[w].enabled
        /\ Len(candles[w]) = 3 /\ candles[w][1] # candles[w][2]

C18_ScenarioC ==
    [][\A w \in WatchIds :
         LET c == thresholds[w]
             d == thresholds'[w]
             wt == watch_list[w]
             p == d.last_price
             sg == signals'[Len(signals')]
         IN  ( /\ wt.present /\ wt.enabled /\ watch_list' = watch_list
               /\ wt.direction = "LONG" /\ wt.n_points = 4
               /\ c.present /\ d.present /\ c.strategy_type = "BB"
               /\ c.signal_type # "None"
               /\ p = 193 /\ c.last_price # 193
               /\ QualifiedAfter(c, wt, p) /\ ~c.signal_fired
               /\ Round4Band(LiveLower(c, p)) = 190 * Scale )
                 => /\ ~wt.confirm_ma_enabled
                           => /\ Emits(w) /\ sg.signal_type = "BUY"
                              /\ sg.price = 193
                    /\ ( /\ wt.confirm_ma_enabled
                         /\ LiveConfirmDirection(c, wt, p) = "FALLING" )
                           => ~Emits(w)
      ]_vars

\* C18 witness: the BUY Signal of the tick 96.5 of a generation without
\* confirmation is on record, and in a later generation with confirmation
\* the same tick, with the lower band 95.0 and the confirmation direction
\* FALLING, has left the watch unlatched.
C18_Witness ==
    \E w \in WatchIds :
        /\ signals # <<>> /\ signals[1].watch_id = w
        /\ signals[1].price = 193 /\ signals[1].signal_type = "BUY"
        /\ watch_list[w].present /\ watch_list[w].confirm_ma_enabled
        /\ thresholds[w].present /\ thresholds[w].qualified
        /\ ~thresholds[w].signal_fired /\ thresholds[w].last_price = 193
        /\ gen_signals[w] = 0
        /\ latest_data[w].present /\ latest_data[w].live
        /\ latest_data[w].current_price = 193
        /\ latest_data[w].bb_lower = Some(190 * Scale)
        /\ latest_data[w].confirm_ma_direction = "FALLING"

\* C19: a calculate_thresholds on the series and the watch parameters the
\* watch's present baseline was calculated from stores the same indicator
\* value, previous value, direction, trigger-zone bounds and implied signal
\* type again, whatever ticks, qualification, latch and Signals came between.
C19_RecalcDeterministic ==
    [][\A w \in WatchIds :
         LET c == thresholds[w]
             d == thresholds'[w]
         IN  ( /\ c.present /\ d.present /\ d # c
               /\ d.last_price = 0
               /\ watch_list' = watch_list
               /\ candles[w] = daily_bars[w] )
                 => /\ d.ma_value = c.ma_value
                    /\ d.prev_ma = c.prev_ma
                    /\ d.ma_direction = c.ma_direction
                    /\ d.ma_rising = c.ma_rising
                    /\ d.trigger_low = c.trigger_low
                    /\ d.trigger_high = c.trigger_high
                    /\ d.signal_type = c.signal_type
                    /\ d.hist_closes = c.hist_closes
      ]_vars

\* C19 witness: a baseline recalculated from the same series stands fresh
\* while the Signal of the generation before it is on record.
C19_Witness ==
    \E w \in WatchIds :
        /\ thresholds[w].present /\ thresholds[w].last_price = 0
        /\ thresholds[w].ma_value # thresholds[w].prev_ma
        /\ candles[w] = daily_bars[w]
        /\ latest_data[w].present /\ ~latest_data[w].live
        /\ signals # <<>> /\ signals[1].watch_id = w
        /\ signals[1].ma_period = thresholds[w].ma_period
        /\ gen_signals[w] = 0

\* the baseline of a cache: what calculate_thresholds computed, without the
\* fields check_price writes afterwards
BaselineOf(cache) ==
    [cache EXCEPT !.last_price = 0, !.signal_fired = FALSE, !.qualified = TRUE]

\* C39: a Signal of a watch is emitted only from a baseline computed with the
\* watch's current parameters: update_watch of any strategy parameter
\* invalidates the old baseline.
C39_UpdateInvalidatesBaseline ==
    [][\A w \in WatchIds :
          gen_signals'[w] > gen_signals[w]
              => BaselineOf(thresholds[w])
                     = NewCache(daily_bars[w], watch_list[w])]_vars

\* the part of C39 that holds: an update of ma_period, n_points, direction
\* or enabled drops the baseline
InvalidatingUpdateDropsBaseline ==
    [][\A w \in WatchIds, u \in Updates :
          (EngineUpdateWatch(w, u[1], u[2]) /\ Invalidates(u[1]))
              => ~thresholds'[w].present]_vars

\* an update changed a parameter of the watch and its old baseline is kept
UpdateKeptOldBaseline ==
    \E w \in WatchIds :
        /\ thresholds[w].present
        /\ watch_list[w].present
        /\ BaselineOf(thresholds[w]) # NewCache(daily_bars[w], watch_list[w])

(***************************************************************************)
(* Claims on the exit monitoring and close_trade, checked under SpecExit.  *)
(***************************************************************************)
\* C5: a trade whose status is closed never changes status again, and no
\* closing market order is placed for it.
C5_ClosedIsFinal ==
    [][\A t \in TradeIds :
         (active_trades[t].present /\ active_trades[t].status = "closed")
             => /\ active_trades'[t].status = "closed"
                /\ close_orders'[t] = close_orders[t]
      ]_vars

\* C6: within one tick of the monitor loop at most one exit rule fires for
\* a trade.
C6_OneRulePerTick ==
    \A t \in TradeIds : Cardinality(fired[t]) <= 1

\* C7: over the life of a trade each of its legs receives at most one
\* closing market order, whatever the interleaving of the monitor loop and
\* close_trade.
C7_NoDoubleExit ==
    \A t \in TradeIds :
        \A i \in DOMAIN close_orders[t] : close_orders[t][i] <= 1

\* C21: when an exit rule of the monitor loop (time, MA or BB) closes a
\* trade, the limit exit order of every leg has been cancelled before the
\* trade becomes closed: no step of the monitor loop closes a trade one of
\* whose legs still has its limit exit order resting.
C21_RuleFiringCancelsLimit ==
    [][\A t \in TradeIds :
         (/\ mon' # mon
          /\ active_trades[t].present
          /\ active_trades[t].status # "closed"
          /\ active_trades'[t].status = "closed")
             => \A i \in 1..Len(active_trades'[t].orders) :
                    active_trades'[t].orders[i].exit_limit # "open"
      ]_vars

\* C22: on a tick of the monitor loop that finds the trade filled with its
\* time exit enabled at value HH:MM, the time rule fires if and only if the
\* time of day is >= HH:MM; a trade whose time rule fired is closed when
\* the tick is over; and on a tick before HH:MM at which neither the MA nor
\* the BB rule holds the trade stays as it is.
C22_TimeRule ==
    [][\A t \in TradeIds :
         /\ (mon'.pc = "idle" /\ "time" \in fired'[t])
                => /\ active_trades'[t].present
                   /\ active_trades'[t].status = "closed"
         /\ (/\ mon.pc = "idle"
             /\ active_trades[t].present
             /\ active_trades[t].status = "filled"
             /\ active_trades[t].exit.time.enabled
             /\ active_trades[t].exit.time.value # 0)
             => \A w \in WatchIds, price \in TimeExitTicks, now \in Clock :
                    MonitorTick(w, price, now)
                        => LET trade == active_trades[t]
                               th == thresholds'[trade.watch_id]
                               data == latest_data'[trade.watch_id]
                           IN  /\ ("time" \in fired'[t])
                                      <=> now >= trade.exit.time.value
                               /\ "time" \in fired'[t]
                                      => active_trades'[t].status
                                             \in {"exiting", "closed"}
                               /\ (/\ now < trade.exit.time.value
                                    /\ ~MaRuleFires(trade, th)
                                    /\ ~BbRuleFires(trade, th, data))
                                      => /\ active_trades'[t] = trade
                                         /\ close_orders'[t] = close_orders[t]
      ]_vars

\* a tick after the exit time has closed a trade with a leg to sell, its
\* MA rule enabled and not holding
C22_Witness ==
    \E t \in TradeIds :
        /\ mon.pc = "idle"
        /\ active_trades[t].present
        /\ active_trades[t].exit.time.value < MaxClock
        /\ fired[t] = {"time"}
        /\ active_trades[t].present
        /\ active_trades[t].status = "closed"
        /\ active_trades[t].exit.ma.enabled
        /\ \E i \in DOMAIN close_orders[t] : close_orders[t][i] = 1

\* the live price crosses the target taken from the live indicator of the
\* tick: the mean of the saved closes and the price, plus or minus the
\* offset
LiveTargetCrossed(ma_exit, cache, price) ==
    LET win == LiveWin(cache, price)
        n == Len(win)
        target == IF ma_exit.dir = "+" THEN SumSeq(win) + ma_exit.pts * n
                  ELSE SumSeq(win) - ma_exit.pts * n
    IN  \/ ma_exit.cond = "above" /\ price * n > target
        \/ ma_exit.cond = "below" /\ price * n < target

\* C36: on a tick of the trade's watch the MA exit rule of a filled trade
\* fires if and only if the live price is strictly above (cond above) or
\* strictly below (cond below) the live indicator value of that tick plus
\* or minus the offset.
C36_MaRuleLive ==
    [][\A t \in TradeIds :
         (/\ mon.pc = "idle"
          /\ active_trades[t].present
          /\ active_trades[t].status = "filled"
          /\ active_trades[t].exit.ma.enabled
          /\ thresholds[active_trades[t].watch_id].present)
            => \A price \in TimeExitTicks \ {0}, now \in Clock :
                   (/\ ~TimeRuleFires(active_trades[t], now)
                    /\ MonitorTick(active_trades[t].watch_id, price, now))
                       => ("ma" \in fired'[t]
                             <=> LiveTargetCrossed(
                                     active_trades[t].exit.ma,
                                     thresholds[active_trades[t].watch_id],
                                     price))]_vars

\* what holds instead of C36: the rule compares the last price check_price
\* recorded with the indicator value of the last baseline calculation
MaRuleAtBaseline ==
    [][\A t \in TradeIds :
         (/\ mon.pc = "idle"
          /\ active_trades[t].present
          /\ active_trades[t].status = "filled"
          /\ active_trades[t].exit.ma.enabled)
            => \A price \in TimeExitTicks, now \in Clock :
                   (/\ ~TimeRuleFires(active_trades[t], now)
                    /\ MonitorTick(active_trades[t].watch_id, price, now))
                       => ("ma" \in fired'[t]
                             <=> MaRuleFires(
                                     active_trades[t],
                                     thresholds'[active_trades[t].watch_id]))
      ]_vars

\* C40: close_trade on a trade that is unknown, exiting or closed starts no
\* cancel and no closing order and leaves the trade, its order records and
\* its closing orders as they are; on a filled trade it asks for a leg's
\* closing order only when the leg records no open limit exit order (the
\* recorded one was cancelled first), the trade is exiting while the request
\* runs, and the request ends with the trade closed, whether its closing
\* orders were placed or failed.
C40_ManualClose ==
    /\ [][\A t \in TradeIds :
            (\/ ~active_trades[t].present
             \/ active_trades[t].status \in {"closed", "exiting"})
                => /\ closer[t].pc = "idle" => closer'[t].pc = "idle"
                   /\ CloseTrade(t) => /\ active_trades'[t] = active_trades[t]
                                       /\ close_orders'[t] = close_orders[t]
                                       /\ closer'[t] = closer[t]]_vars
    /\ [][\A t \in TradeIds :
            (closer'[t].pc = "order" /\ closer'[t] # closer[t])
                => active_trades'[t].orders[closer'[t].leg].exit_limit # "open"]_vars
    /\ [][\A t \in TradeIds :
            (closer[t].pc # "idle" /\ closer'[t].pc = "idle")
                => active_trades'[t].status = "closed"]_vars
    /\ [](\A t \in TradeIds :
            closer[t].pc # "idle"
                => active_trades[t].present /\ active_trades[t].status = "exiting")

\* a two-leg trade closed by hand: the limit exit of one leg was cancelled
\* and its closing order placed, the closing order of the other failed
C40_Witness ==
    \E t \in TradeIds :
        /\ active_trades[t].present /\ active_trades[t].status = "closed"
        /\ closer[t].pc = "idle"
        /\ fired[t] = {}
        /\ Len(active_trades[t].orders) = 2
        /\ \E i, j \in 1..2 :
               /\ active_trades[t].orders[i].exit_limit = "cancelled"
               /\ close_orders[t][i] = 1
               /\ active_trades[t].orders[j].has_qty
               /\ close_orders[t][j] = 0

(***************************************************************************)
(* Claims on the band exit rule, checked under SpecBandExit.               *)
(***************************************************************************)
\* C37: the band exit rule never fires for a trade whose watch uses the MA
\* strategy, and for a trade of a SHORT watch (entered on a SELL signal) it
\* fires at the 'middle' target only with the price at or below the middle
\* band, at the 'opposite' target only with the price at or below the
\* lower band.
C37_BandRule ==
    [][\A t \in TradeIds :
         (/\ mon.pc = "idle"
          /\ active_trades[t].present
          /\ active_trades[t].status = "filled")
            => \A price \in BandTicks \ {0}, now \in Clock :
                   (/\ MonitorTick(active_trades[t].watch_id, price, now)
                    /\ "bb" \in fired'[t])
                       => LET w == active_trades[t].watch_id
                              data == latest_data'[w]
                              middle == DataGet(data, "bb_middle")
                              lower == DataGet(data, "bb_lower")
                          IN  /\ watch_list[w].strategy_type = "BB"
                              /\ watch_list[w].direction = "SHORT"
                                    => IF active_trades[t].exit.bb.target
                                              = "middle"
                                       THEN /\ Truthy(middle)
                                            /\ price * Scale <= middle[1]
                                       ELSE /\ Truthy(lower)
                                            /\ price * Scale <= lower[1]]_vars

\* the band rule has closed a trade of a watch that uses the MA strategy
BandRuleOnMaWatch ==
    \E t \in TradeIds :
        /\ active_trades[t].present /\ "bb" \in fired[t]
        /\ watch_list[active_trades[t].watch_id].strategy_type = "MA"

\* the band rule has closed a trade of a SHORT watch of the BB strategy
\* with the last price above the middle band
BandRuleShortAbove ==
    \E t \in TradeIds :
        /\ active_trades[t].present /\ "bb" \in fired[t]
        /\ LET w == active_trades[t].watch_id
           IN  /\ watch_list[w].strategy_type = "BB"
               /\ watch_list[w].direction = "SHORT"
               /\ Truthy(DataGet(latest_data[w], "bb_middle"))
               /\ thresholds[w].last_price * Scale
                      > DataGet(latest_data[w], "bb_middle")[1]

(***************************************************************************)
(* Claims on the limit exit orders of place_order, checked under SpecExit. *)
(***************************************************************************)
\* C35: a limit exit order is placed only for a trade in status filled:
\* place_order never places one for a trade that an exit rule or a manual
\* close has made exiting or closed.
C35_LimitOnlyWhileFilled ==
    [][\A t \in TradeIds :
         (active_trades[t].present /\ active_trades'[t].present)
            => \A i \in 1..Len(active_trades[t].orders) :
                   (/\ active_trades[t].orders[i].exit_limit # "open"
                    /\ active_trades'[t].orders[i].exit_limit = "open")
                       => active_trades[t].status = "filled"]_vars

\* a closed trade with a limit exit order resting at the gateway, placed
\* after the trade was closed
LimitPlacedAfterClose ==
    \E t \in TradeIds :
        /\ active_trades[t].present /\ active_trades[t].status = "closed"
        /\ placer[t] = 0
        /\ \E i \in 1..Len(active_trades[t].orders) :
               /\ active_trades[t].orders[i].exit_limit = "open"
               /\ close_orders[t][i] > 0

(***************************************************************************)
(* Claims on the entry orders of place_order, checked under SpecEntry.     *)
(***************************************************************************)
\* C23: when the entry order of one leg of a place_order request fails
\* (the gateway answers with an error, or the call raises), the failure is
\* recorded on that leg only, the entry orders of the remaining valid items
\* are still placed, and a trade is registered as filled that holds the
\* outcome of every item: a request one of whose orders failed ends with an
\* outcome for each item and with its trade registered.
C23_PartialFailure ==
    (/\ entry.pc \in {"done", "raised"}
     /\ \E i \in 1..Len(entry.results) :
            entry.results[i] \in {"error", "raised"})
        => /\ Len(entry.results) = Len(entry.items)
           /\ \A i \in 1..Len(entry.items) :
                  entry.items[i] <=> entry.results[i] # "invalid"
           /\ active_trades[entry.t].present
           /\ Len(active_trades[entry.t].orders) = Len(entry.items)

\* C38: a leg receives a closing order only if its entry order was placed:
\* never a leg whose entry order was answered with an error, nor one
\* rejected as invalid.
C38_ClosingOnlyPlacedLegs ==
    (entry.pc = "done" /\ active_trades[entry.t].present)
        => \A i \in 1..Len(entry.results) :
               close_orders[entry.t][i] > 0 => entry.results[i] = "placed"

\* the part of C38 that holds: a leg rejected as invalid gets no closing
\* order
InvalidLegNeverClosed ==
    (entry.pc = "done" /\ active_trades[entry.t].present)
        => \A i \in 1..Len(entry.results) :
               entry.results[i] = "invalid" => close_orders[entry.t][i] = 0

(***************************************************************************)
(* Claims on the passes of the monitor's loop, checked under SpecTick.     *)
(***************************************************************************)
\* C24: an error raised while a pass processes one watch's price or one
\* trade's exit rules does not keep the pass from processing the others:
\* when the pass is over, the price of every watch and the exit rules of
\* every trade whose processing does not raise have been processed, and so
\* has the hourly recalculation of every such watch when it was due.
C24_ErrorIsolation ==
    (tick.pc = "sleep" /\ processed # {})
        => \A item \in TickItems \ raising :
               (item[1] = "hourly" => tick.due) => item \in processed

(***************************************************************************)
(* Claims on load_config, checked under SpecConfig.                        *)
(***************************************************************************)
\* C25: load_config drops the malformed entries of the persisted list one
\* by one: wherever they stand in the list, the engine's watch list holds
\* afterwards every entry that is valid (also one that carries the
\* deprecated field) and no entry that lacks a required field.  An entry
\* with an unknown field is left to either reading.
C25_MalformedDroppedOneByOne ==
    loaded # NoneV =>
        \A i \in 1..Len(config_file) :
            /\ config_file[i] \in {"valid", "deprecated"} => i \in loaded[1]
            /\ config_file[i] = "missing" => i \notin loaded[1]

(***************************************************************************)
(* Claims on the gateway executor, checked under SpecExecutor.             *)
(***************************************************************************)
\* C26: gateway calls are serialised: whatever the interleaving of the
\* submitting coroutines, at most one gateway operation is executing at any
\* moment, and the operations begin in the order of their submission, each
\* after the one before it has ended.
C26_GatewaySerialised ==
    /\ Cardinality(IbExecuting) <= 1
    /\ Len(ib_started) <= Len(ib_submitted)
    /\ \A i \in 1..Len(ib_started) : ib_started[i] = ib_submitted[i]
    /\ \A op \in IbExecuting : op = ib_started[Len(ib_started)]

\* an operation of the monitor loop is executing while operations of a
\* task and of a handler, submitted after it, wait in the queue
C26_Witness ==
    /\ \E op \in IbExecuting : op.caller = "monitor"
    /\ Len(ib_queue) >= 2
    /\ \E i, j \in 1..Len(ib_queue) :
           ib_queue[i].caller = "init" /\ ib_queue[j].caller = "handler"

(***************************************************************************)
(* Claims on the monitor loop and a gateway that drops, checked under      *)
(* SpecReconnect.                                                          *)
(***************************************************************************)
\* C27: in a pass that found the gateway disconnected the loop broadcasts
\* the status before anything else, then attempts to reconnect, and
\* evaluates nothing (it neither reads prices nor places a closing order)
\* unless a reconnection has succeeded; a failed attempt leads to the
\* fixed delay and, the engine still running, to a new pass, never to the
\* end of the loop; a successful one leads to the reading of the prices;
\* and a loop waiting in the delay always comes to a new attempt or to the
\* evaluation of the prices, unless the engine was stopped meanwhile.
C27_Reconnect ==
    /\ [](\A l \in LoopIds :
            loops[l].found = "down" /\ loops[l].pc \in InPass \cup {"sleep10"}
                => /\ loops[l].pc # "status" => "status" \in loops[l].seen
                   /\ loops[l].pc \notin {"status", "connect"}
                          => "reconnect" \in loops[l].seen
                   /\ loops[l].pc \in {"read", "order"} \/ "eval" \in loops[l].seen
                          => "connected" \in loops[l].seen
                   /\ loops[l].pc = "sleep10"
                          => loops[l].seen = {"status", "reconnect"})
    /\ [][\A l \in LoopIds :
            /\ (loops[l].pc = "sleep10" /\ loops'[l].pc # "sleep10"
                   /\ ~loops[l].cancel /\ running)
                  => loops'[l].pc \in {"status", "read"}
            /\ (loops[l].pc = "connect" /\ loops'[l].pc # "connect"
                   /\ ~loops[l].cancel)
                  => \/ loops'[l].pc = "sleep10"
                     \/ loops'[l].pc = "read" /\ gateway_up]_vars
    /\ \A l \in LoopIds :
          (loops[l].pc = "sleep10")
              ~> \/ loops[l].pc \in {"connect", "read"}
                 \/ loops[l].pc \in {"cleanup", "done", "cancelled"}

\* C27 witness: a pass found the gateway disconnected, broadcast the status,
\* reconnected and now evaluates the prices
C27_Witness ==
    /\ loops[1].found = "down"
    /\ loops[1].seen = {"status", "reconnect", "connected", "eval"}
    /\ loops[1].pc = "order"
    /\ running

(***************************************************************************)
(* Claims on starting and stopping the monitor, checked under              *)
(* SpecLifecycle.                                                          *)
(***************************************************************************)
\* a task running monitor_loop that has not ended and that no cancel() was
\* called on
Alive(l) == loops[l].pc \notin Ended /\ ~loops[l].cancel

\* C28: once stop_monitoring has returned, the engine is still stopped and
\* every task in flight has finished (the monitor loops and the
\* initialisation task of a watch), no watch has a streaming subscription.
C28_SubscriptionsTornDown ==
    (/\ stopped /\ ~running /\ stopper.pc = "idle"
     /\ starter.pc = "idle"
     /\ \A l \in LoopIds : loops[l].pc \in Ended)
        => subscriptions = {}

\* C29: a pass of the monitor loop that has begun its work (the status
\* broadcast, the reconnection, the reading of the prices, the closing
\* orders of an exit) is never the last thing the task does: the task
\* ends only from the await that follows the test of the running flag.
C29_TickNeverInterrupted ==
    [][\A l \in LoopIds :
         loops[l].pc \in InPass => loops'[l].pc \notin Ended]_vars

\* a task cancelled at the closing order of the second leg of an exit
ExitCutShort ==
    \E l \in LoopIds : loops[l].pc = "cancelled" /\ loops[l].legs = 1

\* a stop request has returned and a task that monitor_task does not name
\* goes on with its passes
OrphanLoop ==
    /\ stopped /\ stopper.pc = "idle" /\ monitor_task = 0
    /\ \E l \in LoopIds : Alive(l) /\ loops[l].pc \in InPass

\* C30: at most one task running monitor_loop is alive at any time, and
\* after a stop request has returned, no start having come since, no such
\* task is alive.
C30_SingleLoop ==
    /\ \A l, k \in LoopIds : Alive(l) /\ Alive(k) => l = k
    /\ stopped => \A l \in LoopIds : ~Alive(l)

(***************************************************************************)
(* Claims on the quantity sizing, checked under SpecSizing.                *)
(***************************************************************************)
\* C31: for every leg with amount >= 0, ask > 0 and multiplier > 0 the
\* ordered quantity is max(1, floor(amount / (ask * multiplier))), an
\* integer >= 1.
C31_QuantitySizing ==
    sizing.done
        => /\ sizing.qty >= 1
           /\ sizing.qty =
                  QtyExact(sizing.amount, sizing.ask, sizing.multiplier)

\* the part of C31 that holds: the quantity is an integer >= 1, at most
\* the exact one and at most one below it
SizingWithinOne ==
    sizing.done
        => LET exact == QtyExact(sizing.amount, sizing.ask,
                                 sizing.multiplier)
           IN  sizing.qty >= 1 /\ sizing.qty <= exact
                  /\ exact <= sizing.qty + 1

(***************************************************************************)
(* Claims on the signal history, checked under SpecHistory.                *)
(***************************************************************************)
\* C32: the history only ever grows by one Signal appended at its end, and
\* get_signals(limit) answers, for every limit >= 0, the
\* min(limit, number of recorded signals) most recent Signals, the most
\* recent first, never more than limit entries.
C32_SignalHistory ==
    /\ [][signals' # signals
            => \E sig \in HistorySignals : signals' = Append(signals, sig)]_vars
    /\ [][got_signals' # got_signals
            => LET n == Len(signals)
                   r == got_signals'.result
               IN  /\ Len(r) = Min(got_signals'.limit, n)
                   /\ \A i \in 1..Len(r) : r[i] = signals[n + 1 - i]]_vars

\* the part of C32 on get_signals alone, for a limit >= 1
GetSignalsPositive ==
    [][(got_signals' # got_signals /\ got_signals'.limit >= 1)
          => LET n == Len(signals)
                 r == got_signals'.result
             IN  /\ Len(r) = Min(got_signals'.limit, n)
                 /\ \A i \in 1..Len(r) : r[i] = signals[n + 1 - i]]_vars

\* get_signals(0) answers the whole history
GetSignalsZero ==
    /\ got_signals.present /\ got_signals.limit = 0
    /\ Len(got_signals.result) = MaxHistory

(***************************************************************************)
(* Claims on stopping during an exit, checked under SpecStopExit.          *)
(***************************************************************************)
\* C33: every trade that is in status exiting eventually is in status
\* closed.
C33_ExitingCloses ==
    \A t \in TradeIds :
        (active_trades[t].present /\ active_trades[t].status = "exiting")
            ~> (active_trades[t].present /\ active_trades[t].status = "closed")

\* a trade is exiting, no task is closing it, the monitor runs again: no
\* rule fires for it and close_trade refuses it
StuckExiting ==
    \E t \in TradeIds :
        /\ active_trades[t].present /\ active_trades[t].status = "exiting"
        /\ mon.pc = "idle" /\ closer[t].pc = "idle"
        /\ running /\ monitor_task = 1

\* a trade in StuckExiting stays exiting whatever happens
StuckForever ==
    [][\A t \in TradeIds :
         (/\ active_trades[t].present /\ active_trades[t].status = "exiting"
          /\ mon.pc = "idle" /\ closer[t].pc = "idle")
            => /\ active_trades'[t] = active_trades[t]
               /\ mon'.pc = "idle" /\ closer'[t].pc = "idle"]_vars

(***************************************************************************)
(* Claims on the deletion of a watch, checked under SpecDelete.            *)
(***************************************************************************)
\* C34: once delete_watch has completed for a watch id, the engine holds no
\* baseline, no display snapshot, no cached option set and no streaming
\* subscription for that id, whatever tasks were in flight for the watch.
C34_DeletedWatchLeavesNothing ==
    \A w \in deleted :
        /\ ~thresholds[w].present
        /\ ~latest_data[w].present
        /\ ~options_cache[w].present
        /\ w \notin subscriptions

\* the tasks have ended and the deleted watch has its baseline, snapshot,
\* option set and subscription back
DeletedWatchRestored ==
    \E w \in deleted :
        /\ init_task.pc = "idle" /\ hourly.pc = "idle"
        /\ thresholds[w].present /\ latest_data[w].present
        /\ options_cache[w].present /\ w \in subscriptions

(***************************************************************************)
(* Claims on the option cache, checked under SpecOptions, and on the       *)
(* strike selection, checked under SpecSelect.                             *)
(***************************************************************************)
\* C8: when the hourly recalculation has computed a new baseline for a watch
\* with a cached option set, it re-selects the options, at the new value, if
\* and only if that value is more than 0.5 x n_points away from the
\* reference stored with the set; and the stored reference changes only
\* where a selection completes.
C8_Hysteresis ==
    [][\A w \in WatchIds :
         /\ ( /\ hourly.pc = "bars" /\ hourly.w = w /\ hourly'.pc # "bars"
              /\ ~CalcFails(daily_bars[w], watch_list[w])
              /\ options_cache[w].present )
            => /\ fetch'["hourly"].present
                    <=> 2 * Abs(thresholds'[w].ma_value - options_cache[w].ma_price)
                            > watch_list[w].n_points * Scale
               /\ fetch'["hourly"].present
                    => /\ fetch'["hourly"].watch_id = w
                       /\ fetch'["hourly"].ma_price = thresholds'[w].ma_value
         /\ ( /\ options_cache[w].present /\ options_cache'[w].present
              /\ options_cache'[w].ma_price # options_cache[w].ma_price )
            => \E c \in Callers :
                  /\ fetch[c].present /\ ~fetch'[c].present
                  /\ fetch[c].watch_id = w
                  /\ options_cache'[w].ma_price = fetch[c].ma_price
      ]_vars

\* C8 witness: the last hourly recalculation kept the cached set although
\* the baseline stood exactly 0.5 x n_points away from its reference.
C8_Witness ==
    \E w \in WatchIds :
        /\ last_hourly[w] = "keep"
        /\ hourly.pc = "idle"
        /\ options_cache[w].present /\ thresholds[w].present
        /\ 2 * Abs(thresholds[w].ma_value - options_cache[w].ma_price)
               = watch_list[w].n_points * Scale

\* C9: the selected strikes are the (up to) num_strikes listed strikes
\* nearest to the reference price on the out-of-the-money side: strictly
\* above it in ascending order for calls, strictly below it in descending
\* order for puts; none equals the reference, and none comes from the other
\* side when the side is empty.
C9_OtmSelection ==
    otm # NoneV =>
        LET out == otm[1]
            side == {x \in chain_strikes :
                        IF request.right = "C" THEN x > request.ma_price
                        ELSE x < request.ma_price}
            Before(a, b) == IF request.right = "C" THEN a < b ELSE a > b
        IN  /\ Len(out) = IF Cardinality(side) < request.num_strikes
                          THEN Cardinality(side) ELSE request.num_strikes
            /\ \A i \in 1..Len(out) : out[i] \in side
            /\ \A i, j \in 1..Len(out) : i < j => Before(out[i], out[j])
            /\ \A x \in side :
                  (\A i \in 1..Len(out) : out[i] # x)
                      => \A i \in 1..Len(out) : Before(out[i], x)

\* C9 witness: puts were selected where the reference price is itself a
\* listed strike and more strikes lie below it than the count asked for.
C9_Witness ==
    /\ otm # NoneV
    /\ request.right = "P"
    /\ request.ma_price \in chain_strikes
    /\ Cardinality({x \in chain_strikes : x < request.ma_price})
           > request.num_strikes
    /\ Len(otm[1]) = request.num_strikes

\* C10: the cached option set of a LONG watch holds no puts and that of a
\* SHORT watch no calls, in every reachable state.
C10_DirectionConstraint ==
    \A w \in WatchIds :
        (watch_list[w].present /\ options_cache[w].present)
            => /\ watch_list[w].direction = "LONG"
                    => options_cache[w].put_raw = <<>>
               /\ watch_list[w].direction = "SHORT"
                    => options_cache[w].call_raw = <<>>


C15_FailedRecalcChangesNothing ==
    [][\A w \in WatchIds :
         ( /\ watch_list[w].present
           /\ CalcFails(daily_bars[w], watch_list[w])
           /\ \/ hourly.pc = "bars" /\ hourly.w = w /\ hourly' # hourly
              \/ init_task.pc = "bars" /\ init_task.w = w /\ init_task' # init_task )
             => /\ thresholds'[w] = thresholds[w]
                /\ latest_data'[w] = latest_data[w]
                /\ candles'[w] = candles[w]
                /\ signals' = signals
                /\ fetch' = fetch /\ options_cache' = options_cache
                /\ hourly' # hourly => hourly' = HourlyIdle
                /\ init_task' # init_task => init_task' = InitIdle
      ]_vars

\* C15 witness: the last hourly recalculation of a latched watch failed on a
\* short series, and the baseline still holds the latch, the last price and
\* the candles of the longer series it was calculated from.
C15_Witness ==
    \E w \in WatchIds :
        /\ last_hourly[w] = "failed" /\ hourly.pc = "idle"
        /\ watch_list[w].present /\ watch_list[w].enabled
        /\ Len(daily_bars[w]) < watch_list[w].ma_period + 1
        /\ thresholds[w].present /\ thresholds[w].signal_fired
        /\ thresholds[w].last_price # 0
        /\ latest_data[w].present /\ latest_data[w].live
        /\ Len(candles[w]) >= watch_list[w].ma_period + 1


(***************************************************************************)
(* Claims on the expiration selection, checked under SpecExpiry.           *)
(***************************************************************************)
\* C20: the selected expirations are the num_expirations earliest listed
\* expiration dates that are not earlier than the date of the clock the
\* selection read, in ascending date order: an expiration dated that very
\* day is eligible at any time of the day, and an expiration before that day
\* is never selected.
C20_ExpirationSelection ==
    sorted_exps.present =>
        LET s == sorted_exps
            listed == ListedExpirations(chains, s.sec_type)
            eligible == {exp \in listed : exp >= s.today.day}
            out == s.exps
            count == IF Cardinality(eligible) < s.num_expirations
                     THEN Cardinality(eligible) ELSE s.num_expirations
        IN  /\ Len(out) = count
            /\ \A i \in 1..Len(out) : out[i] \in eligible
            /\ \A i \in 1..(Len(out) - 1) : out[i] < out[i + 1]
            /\ \A exp \in eligible :
                   (\E i \in 1..Len(out) : out[i] = exp)
                       \/ (Len(out) = count /\ count > 0
                              /\ exp > out[Len(out)])
            /\ \A i \in 1..Len(out) : out[i] >= s.today.day

====
